---- MODULE Spec2Model ----
(***************************************************************************)
(* The portfolio repository.  Predictive maintenance:                      *)
(*   pipeline.py           load_data, clean_data, engineer_features,       *)
(*                         save_processed_data, run_pipeline               *)
(*   anomaly_detection.py  compute_z_scores, flag_zscore_anomalies,        *)
(*                         compute_iqr_bounds, flag_iqr_anomalies,         *)
(*                         combined_anomaly_score, run_anomaly_detection   *)
(*   data_generator.py     generate_sensor_data                            *)
(*   main.py               main                                            *)
(* Network monitor:                                                        *)
(*   monitor.py            CheckResult.status, check_device                *)
(* Sales dashboard:                                                        *)
(*   database.py           get_connection, init_db, insert_sales_batch     *)
(*   data_seeder.py        seed_master_data, generate_sales, setup_demo_db *)
(*                                                                         *)
(* A DataFrame is a sequence of rows; a row is a record whose fields are   *)
(* the columns plus "index", the pandas index label of the row.  A float   *)
(* is an exact rational <<num, den>> in lowest terms with den > 0, and     *)
(* NaN is <<0, 0>>.  A z-score z is irrational in general, so a            *)
(* <col>_zscore cell holds z*|z| (the signed square of z), which is        *)
(* rational, is 0 exactly when z is 0 and orders as z does.                *)
(***************************************************************************)
EXTENDS Integers, Sequences, FiniteSets, TLC

VARIABLES
    df,         \* the table held by the caller after the last stage
    input,      \* the table that was passed to the last stage
    pc,         \* the last stage that ran
    bounds,     \* result of compute_iqr_bounds: column -> [lower, upper]
    threshold,  \* threshold passed to flag_zscore_anomalies
    runs,       \* completed calls of run_anomaly_detection: argument and result
    fs,         \* the files: raw CSV, processed CSV, score CSV, plots
    raised,     \* the exception that reached the caller, if any
    caller,     \* the entry point that is running: main or run_pipeline
    rng,        \* process-wide generator state of random and numpy.random
    request,    \* check_device: the ports argument
    probes,     \* check_device: the check_port calls made, in order
    result,     \* check_device: the CheckResult returned
    db,         \* the SQLite database file: what is committed
    conn,       \* the connection of the get_connection block that is open
    todo,       \* the statements the running database call still has to run
    ret         \* what the last call on the database returned

\* what the predictive-maintenance pipeline neither reads nor writes
otherVars == <<caller, rng, request, probes, result, db, conn, todo, ret>>

\* what the stage functions neither read nor write
envVars == <<runs, fs, raised, otherVars>>

vars == <<df, input, pc, bounds, threshold, runs, fs, raised, caller,
          rng, request, probes, result, db, conn, todo, ret>>

(* ------------------------------------------------------------------ *)
(* Bounds of the model                                                  *)
(* ------------------------------------------------------------------ *)
MaxRows == 3        \* rows of a table given to clean_data
MaxScoreRows == 4   \* rows of a table given to the scoring stages

(* ------------------------------------------------------------------ *)
(* Floats as exact rationals, with NaN                                  *)
(* ------------------------------------------------------------------ *)
Abs(x) == IF x < 0 THEN -x ELSE x

\* the element of a one-element set; {e(x) : x \in {v}} evaluates v once
Only(S) == CHOOSE x \in S : TRUE

RECURSIVE GCD(_, _)
GCD(a, b) == IF b = 0 THEN a ELSE GCD(b, a % b)

NaN == <<0, 0>>
IsNaN(x) == x[2] = 0

Rat(n, d) ==
    LET g == GCD(Abs(n), Abs(d))
        s == IF d < 0 THEN -1 ELSE 1
    IN  <<(s * n) \div g, (s * d) \div g>>

Num(n) == <<n, 1>>
Zero == Num(0)

FAdd(a, b) == IF IsNaN(a) \/ IsNaN(b) THEN NaN
              ELSE Rat(a[1] * b[2] + b[1] * a[2], a[2] * b[2])
FSub(a, b) == IF IsNaN(a) \/ IsNaN(b) THEN NaN
              ELSE Rat(a[1] * b[2] - b[1] * a[2], a[2] * b[2])
FMul(a, b) == IF IsNaN(a) \/ IsNaN(b) THEN NaN
              ELSE Rat(a[1] * b[1], a[2] * b[2])
\* a / b; the code never divides by 0 (it replaces 0 by NaN first)
FDiv(a, b) == IF IsNaN(a) \/ IsNaN(b) \/ b[1] = 0 THEN NaN
              ELSE Rat(a[1] * b[2], a[2] * b[1])
\* comparisons with NaN are false
FLt(a, b) == ~IsNaN(a) /\ ~IsNaN(b) /\ a[1] * b[2] < b[1] * a[2]
FLe(a, b) == ~IsNaN(a) /\ ~IsNaN(b) /\ a[1] * b[2] <= b[1] * a[2]
FAbs(a) == <<Abs(a[1]), a[2]>>

(* ------------------------------------------------------------------ *)
(* Series helpers (a Series is a sequence of floats)                    *)
(* ------------------------------------------------------------------ *)
RECURSIVE SumUpTo(_, _)
SumUpTo(s, n) == IF n = 0 THEN Zero ELSE FAdd(s[n], SumUpTo(s, n - 1))

SumSeq(s) == SumUpTo(s, Len(s))

DropNa(s) == SelectSeq(s, LAMBDA x : ~IsNaN(x))

\* Series.mean(): NaN skipped, NaN when nothing is left
Mean(s) ==
    LET v == DropNa(s)
    IN  IF v = <<>> THEN NaN ELSE FDiv(SumSeq(v), Num(Len(v)))

\* square of Series.std() (ddof = 1): NaN skipped, NaN for fewer than 2 values
Variance(s) ==
    Only({IF Len(v) < 2 THEN NaN
          ELSE FDiv(SumSeq([k \in 1..Len(v) |->
                              FMul(FSub(v[k], m), FSub(v[k], m))]),
                    Num(Len(v) - 1))
          : v \in {DropNa(s)}, m \in {Mean(s)}})

Column(t, col) == [i \in 1..Len(t) |-> t[i][col]]

\* a row with the columns of new added (an existing column is overwritten)
WithColumns(r, new) == new @@ r

(* ------------------------------------------------------------------ *)
(* pipeline.py                                                          *)
(* ------------------------------------------------------------------ *)
VALUE_RANGES ==
    [temperature_c   |-> <<Num(0), Num(200)>>,
     vibration_mm_s  |-> <<Num(0), Num(50)>>,
     pressure_bar    |-> <<Num(0), Num(30)>>,
     cycle_time_s    |-> <<Rat(1, 10), Num(120)>>,
     operating_hours |-> <<Num(0), Num(100000)>>]

\* list(VALUE_RANGES.keys()), in insertion order
numeric_cols ==
    <<"temperature_c", "vibration_mm_s", "pressure_bar", "cycle_time_s",
      "operating_hours">>

NumericCols == {numeric_cols[j] : j \in 1..Len(numeric_cols)}

\* the machine ids, in the order of the source
MACHINES == <<"MED-INJ-01", "MED-INJ-02", "MED-AUTO-01", "MED-PUMP-01">>

\* the tables passed to the stages hold rows of the first two machines
MachineSet == {MACHINES[1], MACHINES[2]}

\* machine_id is sorted as a string
MachinesInOrder == <<"MED-AUTO-01", "MED-INJ-01", "MED-INJ-02", "MED-PUMP-01">>
MachineRank(m) ==
    CHOOSE j \in 1..Len(MachinesInOrder) : MachinesInOrder[j] = m

Key(r) == <<r.timestamp, r.machine_id>>

\* variant: duplicates judged on the timestamp alone
DropDuplicates_TimestampOnly(t) ==
    LET keep(i) == \A j \in 1..(i - 1) : t[j].timestamp # t[i].timestamp
        RECURSIVE build(_)
        build(i) == IF i > Len(t) THEN <<>>
                    ELSE IF keep(i) THEN <<t[i]>> \o build(i + 1)
                    ELSE build(i + 1)
    IN  build(1)

\* variant: keep="last"
DropDuplicates_KeepLast(t) ==
    LET keep(i) == \A j \in (i + 1)..Len(t) : Key(t[j]) # Key(t[i])
        RECURSIVE build(_)
        build(i) == IF i > Len(t) THEN <<>>
                    ELSE IF keep(i) THEN <<t[i]>> \o build(i + 1)
                    ELSE build(i + 1)
    IN  build(1)

\* df.drop_duplicates(subset=["timestamp", "machine_id"]), keep="first"
DropDuplicates(t) ==
    LET keep(i) == \A j \in 1..(i - 1) : Key(t[j]) # Key(t[i])
        RECURSIVE build(_)
        build(i) == IF i > Len(t) THEN <<>>
                    ELSE IF keep(i) THEN <<t[i]>> \o build(i + 1)
                    ELSE build(i + 1)
    IN  build(1)

\* order of sort_values(["machine_id", "timestamp"])
RowLe(a, b) ==
    \/ MachineRank(a.machine_id) < MachineRank(b.machine_id)
    \/ /\ a.machine_id = b.machine_id
       /\ a.timestamp <= b.timestamp

\* stable insertion of r into the sorted table t
RECURSIVE InsertRow(_, _)
InsertRow(t, r) ==
    IF t = <<>> THEN <<r>>
    ELSE IF RowLe(t[Len(t)], r) THEN Append(t, r)
    ELSE Append(InsertRow(SubSeq(t, 1, Len(t) - 1), r), t[Len(t)])

\* df.sort_values(["machine_id", "timestamp"])
RECURSIVE SortValues(_)
SortValues(t) ==
    IF t = <<>> THEN <<>>
    ELSE InsertRow(SortValues(SubSeq(t, 1, Len(t) - 1)), t[Len(t)])

\* variant: no groupby, the whole table is one group
GroupOf_WholeTable(t, i) == 1..Len(t)

\* positions of the rows of t that belong to the group of row i
GroupOf(t, i) == {j \in 1..Len(t) : t[j].machine_id = t[i].machine_id}

\* variant: the fill reads the neighbouring row instead of the row itself
FfillBfill_Shifted(t, col, i) ==
    LET g == {j \in 1..Len(t) : t[j].machine_id = t[i].machine_id}
        before == {j \in g : j < i /\ ~IsNaN(t[j][col])}
        after == {j \in g : j > i /\ ~IsNaN(t[j][col])}
        max(S) == CHOOSE x \in S : \A y \in S : y <= x
        min(S) == CHOOSE x \in S : \A y \in S : x <= y
    IN  IF before # {} THEN t[max(before)][col]
        ELSE IF after # {} THEN t[min(after)][col]
        ELSE t[i][col]

\* s.ffill().bfill() within the group of row i, read at row i
FfillBfill(t, col, i) ==
    LET g == GroupOf(t, i)
        before == {j \in g : j <= i /\ ~IsNaN(t[j][col])}
        after == {j \in g : j > i /\ ~IsNaN(t[j][col])}
        max(S) == CHOOSE x \in S : \A y \in S : y <= x
        min(S) == CHOOSE x \in S : \A y \in S : x <= y
    IN  IF before # {} THEN t[max(before)][col]
        ELSE IF after # {} THEN t[min(after)][col]
        ELSE NaN

\* Series.fillna(value): a NaN value fills nothing
Fillna(x, value) == IF IsNaN(x) THEN value ELSE x

\* Series.clip(lower=lo, upper=hi): NaN stays NaN
Clip(x, lo, hi) ==
    IF IsNaN(x) THEN x
    ELSE IF FLt(x, lo) THEN lo
    ELSE IF FLt(hi, x) THEN hi
    ELSE x

\* groupby("machine_id")[numeric_cols].transform(ffill().bfill())
\*     .fillna(df[numeric_cols].mean())
FillMissing(t) ==
    [i \in 1..Len(t) |->
        [c \in DOMAIN t[i] |->
            IF c \in NumericCols
            THEN Fillna(FfillBfill(t, c, i), Mean(Column(t, c)))
            ELSE t[i][c]]]

ClipRanges(t) ==
    [i \in 1..Len(t) |->
        [c \in DOMAIN t[i] |->
            IF c \in NumericCols
            THEN Clip(t[i][c], VALUE_RANGES[c][1], VALUE_RANGES[c][2])
            ELSE t[i][c]]]

clean_data(t) == ClipRanges(FillMissing(SortValues(DropDuplicates(t))))

(* ------------------------------------------------------------------ *)
(* pipeline.py: engineer_features                                       *)
(* A <col>_roll_std cell holds the square of the standard deviation,    *)
(* which is rational and is 0 exactly when the deviation is 0.          *)
(* ------------------------------------------------------------------ *)
WINDOW_SIZE == 10

\* positions of the rows of the group of row i up to row i, in row order
GroupUpTo(t, i) ==
    SelectSeq([j \in 1..i |-> j],
              LAMBDA j : t[j].machine_id = t[i].machine_id)

\* variant: the window grows without limit
RollingWindow_Expanding(t, col, i) ==
    LET idx == GroupUpTo(t, i)
    IN  [n \in 1..Len(idx) |-> t[idx[n]][col]]

\* s.rolling(WINDOW_SIZE, min_periods=1) within the group of row i: the
\* values of the window that ends at row i
RollingWindow(t, col, i) ==
    LET idx == GroupUpTo(t, i)
        k == Len(idx)
        lo == IF k > WINDOW_SIZE THEN k - WINDOW_SIZE + 1 ELSE 1
    IN  [n \in 1..(k - lo + 1) |-> t[idx[lo + n - 1]][col]]

\* position of the row before row i in its group; 0 if row i is the first
PrevInGroup_AnyMachine(t, i) == i - 1

PrevInGroup(t, i) ==
    LET idx == GroupUpTo(t, i)
    IN  IF Len(idx) = 1 THEN 0 ELSE idx[Len(idx) - 1]

\* rolling(...).mean(): NaN skipped, NaN for a window without any value
RollMean(t, col, i) ==
    Only({Mean(w) : w \in {RollingWindow(t, col, i)}})

\* variant: the missing deviation of a window with one value is not filled
RollStd_Unfilled(t, col, i) ==
    Only({Variance(w) : w \in {RollingWindow(t, col, i)}})

\* rolling(...).std().fillna(0), squared
RollStd(t, col, i) ==
    Only({Fillna(Variance(w), Zero) : w \in {RollingWindow(t, col, i)}})

\* s.diff().fillna(0)
Diff(t, col, i) ==
    Only({IF j = 0 THEN Zero ELSE Fillna(FSub(t[i][col], t[j][col]), Zero)
          : j \in {PrevInGroup(t, i)}})

FeatureKinds == {"_roll_mean", "_roll_std", "_diff"}

\* the sensor column and the kind of every derived column
FeatureOf ==
    [f \in {c \o k : c \in NumericCols, k \in FeatureKinds} |->
        CHOOSE ck \in NumericCols \X FeatureKinds : ck[1] \o ck[2] = f]

\* the derived columns of row i of the table t
Features(t, i) ==
    [f \in DOMAIN FeatureOf |->
        CASE FeatureOf[f][2] = "_roll_mean" -> RollMean(t, FeatureOf[f][1], i)
          [] FeatureOf[f][2] = "_roll_std" -> RollStd(t, FeatureOf[f][1], i)
          [] FeatureOf[f][2] = "_diff" -> Diff(t, FeatureOf[f][1], i)]

\* variant: the table is taken in the caller's row order
engineer_features_Unsorted(t) ==
    [i \in 1..Len(t) |-> WithColumns(t[i], Features(t, i))]

engineer_features(t) ==
    Only({[i \in 1..Len(s) |-> WithColumns(s[i], Features(s, i))]
          : s \in {SortValues(t)}})

(* ------------------------------------------------------------------ *)
(* Input tables of the cleaning stage                                   *)
(* ------------------------------------------------------------------ *)
Timestamps == 1..3

\* a raw reading is missing, below its range, inside it or above it
Levels == <<"nan", "below", "mid", "above">>

\* nominal reading of a column (BASE_PARAMS means of data_generator.py)
Nominal ==
    [temperature_c   |-> Num(65),
     vibration_mm_s  |-> Rat(6, 5),
     pressure_bar    |-> Rat(13, 2),
     cycle_time_s    |-> Num(12),
     operating_hours |-> Num(500)]

RawValue(col, level) ==
    CASE level = "nan" -> NaN
      [] level = "below" -> FSub(VALUE_RANGES[col][1], Num(1))
      [] level = "mid" -> Nominal[col]
      [] level = "above" -> FAdd(VALUE_RANGES[col][2], Num(1))

\* the k-th reading pattern: column j of the row is at level k + j (cyclic),
\* so the columns of one row sit at different levels
RawRow(m, ts, k) ==
    [c \in NumericCols \cup {"machine_id", "timestamp", "label"} |->
        CASE c = "machine_id" -> m
          [] c = "timestamp" -> ts
          [] c = "label" -> 0
          [] OTHER ->
                LET j == CHOOSE n \in 1..Len(numeric_cols) : numeric_cols[n] = c
                IN  RawValue(c, Levels[((k + j) % Len(Levels)) + 1])]

\* the first machine reports at every timestamp, the second at the first two
RawKeys == {<<m, ts>> \in MachineSet \X Timestamps :
                m = MACHINES[1] \/ ts <= 2}

RawRows == {RawRow(key[1], key[2], k) : key \in RawKeys,
                                       k \in 0..(Len(Levels) - 1)}

\* a freshly built DataFrame has the RangeIndex 0..n-1
WithIndex(t) == [i \in 1..Len(t) |-> t[i] @@ ("index" :> (i - 1))]

NoBounds == [c \in {} |-> <<NaN, NaN>>]

\* no file, no exception, no completed run
NoFile == [exists |-> FALSE, columns |-> {}, rows |-> <<>>]
NoFiles == [raw |-> NoFile, processed |-> NoFile, scores |-> NoFile,
            plots |-> NoFile]
NoError == [type |-> "none", by |-> "none", missing |-> {}]
\* the generator state of a fresh process, no device checked, no database
NoRng == [random |-> [seed |-> 0, pos |-> 0], numpy |-> [seed |-> 0, pos |-> 0]]
NoRequest == [given |-> FALSE, ports |-> <<>>]
NoResult == [ping_ok |-> FALSE, open_ports |-> <<>>, closed_ports |-> <<>>,
             status |-> "none"]
NoDb == [schema |-> {}, products |-> <<>>, customers |-> <<>>, sales |-> <<>>]
NoConn == [state |-> "none", base |-> NoDb, work |-> NoDb, tx |-> FALSE]
NoRet == [product_ids |-> <<>>, customer_ids |-> <<>>, count |-> 0,
          records |-> <<>>]
GenIdle == rng = NoRng
NetIdle == request = NoRequest /\ probes = <<>> /\ result = NoResult
SalesIdle == db = NoDb /\ conn = NoConn /\ todo = <<>> /\ ret = NoRet
OthersIdle == GenIdle /\ NetIdle /\ SalesIdle

EnvIdle ==
    /\ runs = <<>>
    /\ fs = NoFiles
    /\ raised = NoError
    /\ caller = "none"
    /\ OthersIdle

(* ------------------------------------------------------------------ *)
(* Cleaning stage as a state machine                                    *)
(* ------------------------------------------------------------------ *)
InitClean ==
    /\ \E n \in 0..MaxRows : \E t \in [1..n -> RawRows] : df = WithIndex(t)
    /\ input = <<>>
    /\ pc = "raw"
    /\ bounds = NoBounds
    /\ threshold = NaN
    /\ EnvIdle

\* df = clean_data(df); the caller may clean its own output again
CleanData ==
    /\ pc \in {"raw", "cleaned"}
    /\ input' = df
    /\ df' = clean_data(df)
    /\ pc' = IF pc = "raw" THEN "cleaned" ELSE "recleaned"
    /\ UNCHANGED <<bounds, threshold, envVars>>

NextClean == CleanData

SpecClean == InitClean /\ [][NextClean]_vars

(* ------------------------------------------------------------------ *)
(* anomaly_detection.py                                                 *)
(* ------------------------------------------------------------------ *)
Z_THRESHOLD == Num(3)
IQR_MULTIPLIER == Rat(3, 2)

SENSOR_COLS ==
    <<"temperature_c", "vibration_mm_s", "pressure_bar", "cycle_time_s">>

SensorCols == {SENSOR_COLS[j] : j \in 1..Len(SENSOR_COLS)}

ZCol(c) == c \o "_zscore"

\* variant: no groupby, the statistics are taken over the whole column
GroupValues_WholeColumn(t, col, m) == [k \in 1..Len(t) |-> t[k][col]]

\* the values of column col in the machine_id group m, in row order
GroupValues(t, col, m) ==
    LET idx == SelectSeq([j \in 1..Len(t) |-> j],
                         LAMBDA j : t[j].machine_id = m)
    IN  [k \in 1..Len(idx) |-> t[idx[k]][col]]

\* Series.replace(0, np.nan)
ReplaceZero(x) == IF x = Zero THEN NaN ELSE x

\* variant: one mean and one deviation for the whole column
GroupStats_Pooled(t, col) ==
    [m \in {t[i].machine_id : i \in 1..Len(t)} |->
        LET g == Column(t, col)
        IN  [mean |-> Mean(g), var |-> Variance(g)]]

\* grp.transform("mean") and the square of grp.transform("std"), per group
GroupStats(t, col) ==
    [m \in {t[i].machine_id : i \in 1..Len(t)} |->
        LET g == GroupValues(t, col, m)
        IN  [mean |-> Mean(g), var |-> Variance(g)]]

\* ((df[col] - mean) / std.replace(0, nan)).fillna(0), each cell as z*|z|
ZScoreColumn(t, col) ==
    Only({[i \in 1..Len(t) |->
            LET d == FSub(t[i][col], st[t[i].machine_id].mean)
            IN  Fillna(FDiv(FMul(d, FAbs(d)),
                            ReplaceZero(st[t[i].machine_id].var)), Zero)]
          : st \in {GroupStats(t, col)}})

\* the sensor column a z-score column belongs to
SensorOfZCol ==
    [z \in {ZCol(c) : c \in SensorCols} |->
        CHOOSE c \in SensorCols : ZCol(c) = z]

compute_z_scores(t) ==
    Only({[i \in 1..Len(t) |->
            WithColumns(t[i],
                [z \in DOMAIN SensorOfZCol |-> zs[SensorOfZCol[z]][i]])]
          : zs \in {[c \in SensorCols |-> ZScoreColumn(t, c)]}})

\* variant: abs(z) >= thr
AbsExceeds_Inclusive(cell, thr) ==
    /\ ~IsNaN(cell)
    /\ ~IsNaN(thr)
    /\ \/ FLe(thr, Zero)
       \/ FLe(FMul(thr, thr), FAbs(cell))

\* abs(z) > thr, for a cell holding z*|z|
AbsExceeds(cell, thr) ==
    /\ ~IsNaN(cell)
    /\ ~IsNaN(thr)
    /\ \/ FLt(thr, Zero)
       \/ FLt(FMul(thr, thr), FAbs(cell))

flag_zscore_anomalies(t, thr) ==
    [i \in 1..Len(t) |->
        WithColumns(t[i],
            [f \in {"anomaly_zscore"} |->
                \E c \in SensorCols : AbsExceeds(t[i][ZCol(c)], thr)])]

\* stable insertion of x into the ascending sequence s
RECURSIVE InsertValue(_, _)
InsertValue(s, x) ==
    IF s = <<>> THEN <<x>>
    ELSE IF FLe(s[Len(s)], x) THEN Append(s, x)
    ELSE Append(InsertValue(SubSeq(s, 1, Len(s) - 1), x), s[Len(s)])

RECURSIVE SortFloats(_)
SortFloats(s) ==
    IF s = <<>> THEN <<>>
    ELSE InsertValue(SortFloats(SubSeq(s, 1, Len(s) - 1)), s[Len(s)])

\* variant: interpolation="lower"
Quantile_Lower(s, qn, qd) ==
    LET v == SortFloats(DropNa(s))
        n == Len(v)
    IN  IF n = 0 THEN NaN ELSE v[(((n - 1) * qn) \div qd) + 1]

\* Series.quantile(q), q = qn/qd, interpolation="linear", NaN skipped
Quantile(s, qn, qd) ==
    LET v == SortFloats(DropNa(s))
        n == Len(v)
        lo == ((n - 1) * qn) \div qd
        rem == ((n - 1) * qn) % qd
    IN  IF n = 0 THEN NaN
        ELSE IF rem = 0 THEN v[lo + 1]
        ELSE FAdd(v[lo + 1],
                  FMul(Rat(rem, qd), FSub(v[lo + 2], v[lo + 1])))

\* variant: the fences are taken from the minimum and the maximum
compute_iqr_bounds_Extremes(t, cols, multiplier) ==
    [c \in cols |->
        LET q1 == Quantile(Column(t, c), 0, 4)
            q3 == Quantile(Column(t, c), 4, 4)
            iqr == FSub(q3, q1)
        IN  [lower |-> FSub(q1, FMul(multiplier, iqr)),
             upper |-> FAdd(q3, FMul(multiplier, iqr))]]

\* variant: the fences are moved inward from the quartiles
compute_iqr_bounds_Inward(t, cols, multiplier) ==
    [c \in cols |->
        LET q1 == Quantile(Column(t, c), 1, 4)
            q3 == Quantile(Column(t, c), 3, 4)
            iqr == FSub(q3, q1)
        IN  [lower |-> FAdd(q1, FMul(multiplier, iqr)),
             upper |-> FSub(q3, FMul(multiplier, iqr))]]

\* cols is the set of the columns of the list passed as cols
compute_iqr_bounds(t, cols, multiplier) ==
    [c \in cols |->
        LET q1 == Quantile(Column(t, c), 1, 4)
            q3 == Quantile(Column(t, c), 3, 4)
            iqr == FSub(q3, q1)
        IN  [lower |-> FSub(q1, FMul(multiplier, iqr)),
             upper |-> FAdd(q3, FMul(multiplier, iqr))]]

\* variant: a value on a bound counts as outside
flag_iqr_anomalies_Inclusive(t, b, cols) ==
    [i \in 1..Len(t) |->
        WithColumns(t[i],
            [f \in {"anomaly_iqr"} |->
                \E c \in cols :
                    \/ FLe(t[i][c], b[c].lower)
                    \/ FLe(b[c].upper, t[i][c])])]

flag_iqr_anomalies(t, b, cols) ==
    [i \in 1..Len(t) |->
        WithColumns(t[i],
            [f \in {"anomaly_iqr"} |->
                \E c \in cols :
                    \/ FLt(t[i][c], b[c].lower)
                    \/ FLt(b[c].upper, t[i][c])])]

\* variant: both methods must agree
combined_anomaly_score_And(t) ==
    [i \in 1..Len(t) |->
        WithColumns(t[i],
            [f \in {"anomaly_combined"} |->
                t[i].anomaly_zscore /\ t[i].anomaly_iqr])]

combined_anomaly_score(t) ==
    [i \in 1..Len(t) |->
        WithColumns(t[i],
            [f \in {"anomaly_combined"} |->
                t[i].anomaly_zscore \/ t[i].anomaly_iqr])]

(* ------------------------------------------------------------------ *)
(* Input tables of the scoring stages                                   *)
(* ------------------------------------------------------------------ *)
\* readings of a scored table
Readings == <<Num(0), Num(1), Num(5)>>

\* the k-th reading pattern: column j of the row holds reading k + j (cyclic)
ScoreRow(m, k) ==
    [c \in SensorCols \cup {"machine_id"} |->
        CASE c = "machine_id" -> m
          [] OTHER ->
                LET j == CHOOSE n \in 1..Len(SENSOR_COLS) : SENSOR_COLS[n] = c
                IN  Readings[((k + j - 1) % Len(Readings)) + 1]]

ScoreRows == {ScoreRow(m, k) : m \in MachineSet, k \in 0..(Len(Readings) - 1)}

\* thresholds passed to flag_zscore_anomalies: a low one and the default
Thresholds == {Rat(1, 2), Z_THRESHOLD}

(* ------------------------------------------------------------------ *)
(* Scoring stages as a state machine (order of run_anomaly_detection)   *)
(* ------------------------------------------------------------------ *)
Init ==
    /\ \E n \in 0..MaxScoreRows : \E t \in [1..n -> ScoreRows] : df = WithIndex(t)
    /\ input = <<>>
    /\ pc = "loaded"
    /\ bounds = NoBounds
    /\ threshold = NaN
    /\ EnvIdle

ComputeZScores ==
    /\ pc = "loaded"
    /\ input' = df
    /\ df' = compute_z_scores(df)
    /\ pc' = "zscored"
    /\ UNCHANGED <<bounds, threshold, envVars>>

FlagZscoreAnomalies ==
    /\ pc = "zscored"
    /\ \E thr \in Thresholds :
        /\ threshold' = thr
        /\ df' = flag_zscore_anomalies(df, thr)
    /\ input' = df
    /\ pc' = "zflagged"
    /\ UNCHANGED <<bounds, envVars>>

ComputeIqrBounds ==
    /\ pc = "zflagged"
    /\ bounds' = compute_iqr_bounds(df, SensorCols, IQR_MULTIPLIER)
    /\ input' = df
    /\ pc' = "bounded"
    /\ UNCHANGED <<df, threshold, envVars>>

FlagIqrAnomalies ==
    /\ pc = "bounded"
    /\ input' = df
    /\ df' = flag_iqr_anomalies(df, bounds, SensorCols)
    /\ pc' = "iqrflagged"
    /\ UNCHANGED <<bounds, threshold, envVars>>

CombinedAnomalyScore ==
    /\ pc = "iqrflagged"
    /\ input' = df
    /\ df' = combined_anomaly_score(df)
    /\ pc' = "scored"
    /\ UNCHANGED <<bounds, threshold, envVars>>

Next ==
    \/ ComputeZScores
    \/ FlagZscoreAnomalies
    \/ ComputeIqrBounds
    \/ FlagIqrAnomalies
    \/ CombinedAnomalyScore

Spec == Init /\ [][Next]_vars

(* ------------------------------------------------------------------ *)
(* Z-score stages on small machine partitions                           *)
(* ------------------------------------------------------------------ *)
MaxSmallRows == 11  \* rows of the partition under test

\* reading levels of a small partition: two close ones and a far one
SmallLevels == <<0, 1, 10>>

\* a row of machine m at reading level l: column j holds the level plus j
SmallRow(m, l) ==
    [c \in SensorCols \cup {"machine_id"} |->
        CASE c = "machine_id" -> m
          [] OTHER ->
                LET j == CHOOSE n \in 1..Len(SENSOR_COLS) : SENSOR_COLS[n] = c
                IN  Num(SmallLevels[l] + j)]

\* a rows at the first level, then b at the second, then c at the third
SmallPartition(m, a, b, c) ==
    [i \in 1..(a + b + c) |->
        SmallRow(m, IF i <= a THEN 1 ELSE IF i <= a + b THEN 2 ELSE 3)]

\* the partition of one machine, followed by r rows of the other machine
InitSmall ==
    /\ \E n \in 1..MaxSmallRows : \E a \in 0..n : \E b \in 0..(n - a) :
          \E k \in 1..2 : \E r \in {0, 2} :
              df = WithIndex(SmallPartition(MACHINES[k], a, b, n - a - b)
                             \o SmallPartition(MACHINES[3 - k], r, 0, 0))
    /\ input = <<>>
    /\ pc = "loaded"
    /\ bounds = NoBounds
    /\ threshold = NaN
    /\ EnvIdle

NextSmall ==
    \/ ComputeZScores
    \/ FlagZscoreAnomalies

SpecSmall == InitSmall /\ [][NextSmall]_vars

(* ------------------------------------------------------------------ *)
(* Scoring stages with the IQR multiplier passed by the caller          *)
(* ------------------------------------------------------------------ *)
MaxBoundRows == 3   \* rows of a table scored with a chosen multiplier

\* multipliers passed to compute_iqr_bounds: none below 0
Multipliers == {Zero, IQR_MULTIPLIER, Num(3)}

\* a row of the first machine without any reading
BlankRow ==
    [c \in SensorCols \cup {"machine_id"} |->
        IF c = "machine_id" THEN MACHINES[1] ELSE NaN]

BoundRows == ScoreRows \cup {BlankRow}

InitBounds ==
    /\ \E n \in 0..MaxBoundRows : \E t \in [1..n -> BoundRows] :
          df = WithIndex(t)
    /\ input = <<>>
    /\ pc = "loaded"
    /\ bounds = NoBounds
    /\ threshold = NaN
    /\ EnvIdle

\* bounds = compute_iqr_bounds(df, multiplier=m)
ComputeIqrBoundsWith ==
    /\ pc = "zflagged"
    /\ \E m \in Multipliers :
          bounds' = compute_iqr_bounds(df, SensorCols, m)
    /\ input' = df
    /\ pc' = "bounded"
    /\ UNCHANGED <<df, threshold, envVars>>

NextBounds ==
    \/ ComputeZScores
    \/ FlagZscoreAnomalies
    \/ ComputeIqrBoundsWith
    \/ FlagIqrAnomalies
    \/ CombinedAnomalyScore

SpecBounds == InitBounds /\ [][NextBounds]_vars

(* ------------------------------------------------------------------ *)
(* IQR stages called on their own with one scored column                *)
(* ------------------------------------------------------------------ *)
\* the readings of the scored column
ScenarioValues == <<1, 2, 3, 4, 100>>

\* one machine, one sensor column c, the readings in the order p (one of
\* the permutations of their positions)
ScenarioTable(c, p) ==
    WithIndex([i \in 1..Len(ScenarioValues) |->
                  [f \in {"machine_id", c} |->
                      IF f = "machine_id" THEN MACHINES[1]
                      ELSE Num(ScenarioValues[p[i]])]])

InitScenario ==
    /\ \E c \in SensorCols : \E p \in Permutations(1..Len(ScenarioValues)) :
          df = ScenarioTable(c, p)
    /\ input = <<>>
    /\ pc = "loaded"
    /\ bounds = NoBounds
    /\ threshold = NaN
    /\ EnvIdle

\* bounds = compute_iqr_bounds(df, cols=[c]) for the column c of the table
ScenarioComputeIqrBounds ==
    /\ pc = "loaded"
    /\ bounds' = compute_iqr_bounds(df, DOMAIN df[1] \cap SensorCols,
                                    IQR_MULTIPLIER)
    /\ input' = df
    /\ pc' = "bounded"
    /\ UNCHANGED <<df, threshold, envVars>>

\* df = flag_iqr_anomalies(df, bounds, cols=[c]) with the same cols
ScenarioFlagIqrAnomalies ==
    /\ pc = "bounded"
    /\ input' = df
    /\ df' = flag_iqr_anomalies(df, bounds, DOMAIN bounds)
    /\ pc' = "iqrflagged"
    /\ UNCHANGED <<bounds, threshold, envVars>>

NextScenario ==
    \/ ScenarioComputeIqrBounds
    \/ ScenarioFlagIqrAnomalies

SpecScenario == InitScenario /\ [][NextScenario]_vars

(* ------------------------------------------------------------------ *)
(* run_anomaly_detection called again and again                         *)
(* ------------------------------------------------------------------ *)
MaxRunRows == 4     \* rows of every table given to run_anomaly_detection

\* the table after compute_z_scores(df) and flag_zscore_anomalies(df), both
\* with their default arguments
ZFlagged(t) ==
    Only({flag_zscore_anomalies(z, Z_THRESHOLD) : z \in {compute_z_scores(t)}})

\* bounds = compute_iqr_bounds(df) on that table
RunBounds(t) ==
    Only({compute_iqr_bounds(z, SensorCols, IQR_MULTIPLIER)
          : z \in {ZFlagged(t)}})

\* flag_iqr_anomalies(df, bounds) and combined_anomaly_score(df)
RunFlags(z, b) ==
    Only({combined_anomaly_score(f)
          : f \in {flag_iqr_anomalies(z, b, SensorCols)}})

\* variant: the bounds left by the previous call are used when there are any
run_anomaly_detection_StaleBounds(t) ==
    Only({RunFlags(z, b)
          : z \in {ZFlagged(t)},
            b \in {IF bounds # NoBounds THEN bounds ELSE RunBounds(t)}})

run_anomaly_detection(t) ==
    Only({RunFlags(z, b) : z \in {ZFlagged(t)}, b \in {RunBounds(t)}})

\* rows of the tables passed: a reading pattern of each machine
RunRows == {ScoreRow(MACHINES[1], 0), ScoreRow(MACHINES[2], 2)}

InitRuns ==
    /\ df = <<>>
    /\ input = <<>>
    /\ pc = "idle"
    /\ bounds = NoBounds
    /\ threshold = NaN
    /\ EnvIdle

\* one call df_scored = run_anomaly_detection(t).  bounds and threshold keep
\* the values the call worked with; runs keeps the first call and the
\* latest one.
RunAnomalyDetection ==
    \E rows \in [1..MaxRunRows -> RunRows] :
        \E t \in {WithIndex(rows)} : \E out \in {run_anomaly_detection(t)} :
            /\ input' = t
            /\ df' = out
            /\ bounds' = RunBounds(t)
            /\ threshold' = Z_THRESHOLD
            /\ runs' = IF runs = <<>>
                       THEN <<[input |-> t, output |-> out]>>
                       ELSE <<runs[1], [input |-> t, output |-> out]>>
            /\ pc' = "scored"
            /\ UNCHANGED <<fs, raised, otherVars>>

NextRuns == RunAnomalyDetection

SpecRuns == InitRuns /\ [][NextRuns]_vars

(* ------------------------------------------------------------------ *)
(* pipeline.py: load_data, save_processed_data, run_pipeline; main.py   *)
(* A CSV file is a record: whether it exists, its header, its rows.     *)
(* ------------------------------------------------------------------ *)
MaxPipeRows == 2    \* rows of a raw CSV file

\* required = {"timestamp", "machine_id", "label"} | set(VALUE_RANGES.keys())
RequiredColumns == {"timestamp", "machine_id", "label"} \cup NumericCols

FileNotFound ==
    [type |-> "FileNotFoundError", by |-> "load_data", missing |-> {}]

\* pd.read_csv(filepath, parse_dates=["timestamp"]) on a file without a
\* timestamp column
ParseDatesError ==
    [type |-> "ValueError", by |-> "read_csv", missing |-> {"timestamp"}]

MissingColumns(missing) ==
    [type |-> "ValueError", by |-> "load_data", missing |-> missing]

\* the outcome of load_data(filepath) for the file f found at filepath: the
\* exception raised, or the table read (with a fresh RangeIndex)
load_data(f) ==
    IF ~f.exists THEN [error |-> FileNotFound, df |-> <<>>]
    ELSE IF "timestamp" \notin f.columns
    THEN [error |-> ParseDatesError, df |-> <<>>]
    ELSE IF RequiredColumns \ f.columns # {}
    THEN [error |-> MissingColumns(RequiredColumns \ f.columns), df |-> <<>>]
    ELSE [error |-> NoError, df |-> WithIndex(f.rows)]

\* df.to_csv(filepath, index=False): the index is not written
ToCsv(t) ==
    [exists |-> TRUE,
     columns |-> UNION {DOMAIN t[i] \ {"index"} : i \in 1..Len(t)},
     rows |-> [i \in 1..Len(t) |->
                  [c \in DOMAIN t[i] \ {"index"} |-> t[i][c]]]]

\* variant: run_pipeline goes on after a failed load
AfterLoad_Swallowed(error) == "load_ok"

\* run_pipeline has no handler: an exception of load_data ends the run
AfterLoad(error) == IF error = NoError THEN "load_ok" ELSE "load_failed"

\* rows of raw files: two reading patterns at three keys
PipeRows ==
    {RawRow(key[1], key[2], k) :
        key \in {<<MACHINES[1], 1>>, <<MACHINES[1], 2>>, <<MACHINES[2], 1>>},
        k \in {0, 1}}

\* a raw file with every required column and at least one row
GoodRawFiles ==
    {ToCsv(t) : t \in UNION {[1..n -> PipeRows] : n \in 1..MaxPipeRows}}

\* a raw file that lacks the columns of missing: one row, and a column
\* that is not required
BadRawFile(missing) ==
    [exists |-> TRUE,
     columns |-> (RequiredColumns \ missing) \cup {"comment"},
     rows |-> <<[c \in (RequiredColumns \ missing) \cup {"comment"} |->
                   IF c = "comment" THEN "ok"
                   ELSE RawRow(MACHINES[1], 1, 2)[c]]>>]

BadRawFiles == {BadRawFile(missing) : missing \in SUBSET RequiredColumns \ {{}}}

\* a processed file left by an earlier run
OldProcessed == [exists |-> TRUE, columns |-> {"timestamp"}, rows |-> <<>>]

\* the table of generate_sensor_data(n): the machines in turn, one reading
\* per timestamp, every reading present
Generated(n) ==
    [i \in 1..n |->
        [c \in RequiredColumns |->
            CASE c = "machine_id" -> MACHINES[((i - 1) % Len(MACHINES)) + 1]
              [] c = "timestamp" -> i
              [] c = "label" -> 0
              [] OTHER -> FAdd(Nominal[c], Num(i))]]

\* either main runs (its raw file is written by its first step) or
\* run_pipeline is called on the raw file that is there
InitPipeline ==
    /\ df = <<>>
    /\ input = <<>>
    /\ bounds = NoBounds
    /\ threshold = NaN
    /\ runs = <<>>
    /\ raised = NoError
    /\ OthersIdle
    /\ \E old \in {NoFile, OldProcessed} :
          \/ /\ caller = "main"
             /\ pc = "main"
             /\ fs = [NoFiles EXCEPT !.processed = old]
          \/ /\ caller = "run_pipeline"
             /\ pc = "run_pipeline"
             /\ \E f \in {NoFile} \cup BadRawFiles \cup GoodRawFiles :
                   fs = [NoFiles EXCEPT !.processed = old, !.raw = f]

\* main step 1: generate_sensor_data and save_raw_data
MainGenerate ==
    /\ pc = "main"
    /\ \E n \in 1..MaxPipeRows : fs' = [fs EXCEPT !.raw = ToCsv(Generated(n))]
    /\ pc' = "generated"
    /\ UNCHANGED <<df, input, bounds, threshold, runs, raised, otherVars>>

\* the raw file is removed or rewritten by someone else before main reads it
RawFileDisturbed ==
    /\ pc = "generated"
    /\ \E f \in {NoFile} \cup BadRawFiles : fs' = [fs EXCEPT !.raw = f]
    /\ pc' = "disturbed"
    /\ UNCHANGED <<df, input, bounds, threshold, runs, raised, otherVars>>

\* run_pipeline: df = load_data(raw_path)
LoadData ==
    /\ pc \in {"generated", "disturbed", "run_pipeline"}
    /\ \E res \in {load_data(fs.raw)} :
          /\ raised' = res.error
          /\ df' = res.df
          /\ pc' = AfterLoad(res.error)
    /\ UNCHANGED <<input, bounds, threshold, runs, fs, otherVars>>

\* run_pipeline: df = clean_data(df)
PipelineCleanData ==
    /\ pc = "load_ok"
    /\ input' = df
    /\ df' = clean_data(df)
    /\ pc' = "clean_ok"
    /\ UNCHANGED <<bounds, threshold, envVars>>

\* run_pipeline: df = engineer_features(df)
PipelineEngineerFeatures ==
    /\ pc = "clean_ok"
    /\ input' = df
    /\ df' = engineer_features(df)
    /\ pc' = "features_ok"
    /\ UNCHANGED <<bounds, threshold, envVars>>

\* run_pipeline: save_processed_data(df, output_dir), then return df
SaveProcessedData ==
    /\ pc = "features_ok"
    /\ input' = df
    /\ fs' = [fs EXCEPT !.processed = ToCsv(df)]
    /\ pc' = "saved"
    /\ UNCHANGED <<df, bounds, threshold, runs, raised, otherVars>>

\* main step 3: df_scored = run_anomaly_detection(df_processed)
MainRunAnomalyDetection ==
    /\ pc = "saved"
    /\ caller = "main"
    /\ \E out \in {run_anomaly_detection(df)} :
          /\ df' = out
          /\ runs' = <<[input |-> df, output |-> out]>>
    /\ input' = df
    /\ bounds' = RunBounds(df)
    /\ threshold' = Z_THRESHOLD
    /\ pc' = "scored"
    /\ UNCHANGED <<fs, raised, otherVars>>

\* main step 3: df_scored.to_csv(out_path, index=False)
MainExportScores ==
    /\ pc = "scored"
    /\ caller = "main"
    /\ fs' = [fs EXCEPT !.scores = ToCsv(df)]
    /\ pc' = "exported"
    /\ UNCHANGED <<df, input, bounds, threshold, runs, raised, otherVars>>

\* main step 4: generate_all_plots(df_scored)
MainGeneratePlots ==
    /\ pc = "exported"
    /\ fs' = [fs EXCEPT !.plots = [exists |-> TRUE, columns |-> {},
                                    rows |-> <<>>]]
    /\ pc' = "plotted"
    /\ UNCHANGED <<df, input, bounds, threshold, runs, raised, otherVars>>

NextPipeline ==
    \/ MainGenerate
    \/ RawFileDisturbed
    \/ LoadData
    \/ PipelineCleanData
    \/ PipelineEngineerFeatures
    \/ SaveProcessedData
    \/ MainRunAnomalyDetection
    \/ MainExportScores
    \/ MainGeneratePlots

SpecPipeline == InitPipeline /\ [][NextPipeline]_vars

(* ------------------------------------------------------------------ *)
(* engineer_features called on its own                                  *)
(* ------------------------------------------------------------------ *)
MaxPartRows == 11   \* rows of the first machine: more than WINDOW_SIZE
MaxOtherRows == 2   \* rows of the second machine

\* reading of column number j of machine m at timestamp ts; the first
\* machine has a gap in its odd columns at timestamp gap (none if gap = 0)
FeatReading(j, m, ts, gap) ==
    IF m = MACHINES[1]
    THEN IF ts = gap /\ j % 2 = 1 THEN NaN ELSE Num(ts * ts + j)
    ELSE Num(50 + ts + j)

FeatRow(m, ts, gap) ==
    [c \in NumericCols \cup {"machine_id", "timestamp", "label"} |->
        CASE c = "machine_id" -> m
          [] c = "timestamp" -> ts
          [] c = "label" -> 0
          [] OTHER ->
                LET j == CHOOSE n \in 1..Len(numeric_cols) : numeric_cols[n] = c
                IN  FeatReading(j, m, ts, gap)]

\* n1 rows of the first machine, then n2 rows of the second
FeatTable(n1, n2, gap) ==
    [i \in 1..(n1 + n2) |->
        IF i <= n1 THEN FeatRow(MACHINES[1], i, gap)
        ELSE FeatRow(MACHINES[2], i - n1, gap)]

\* row orders in which a caller may pass a table
Reversed(t) == [i \in 1..Len(t) |-> t[Len(t) + 1 - i]]
Rotated(t) == [i \in 1..Len(t) |-> t[(i % Len(t)) + 1]]
Orders == {"sorted", "reversed", "rotated"}
InOrder(t, o) ==
    CASE o = "sorted" -> t
      [] o = "reversed" -> Reversed(t)
      [] o = "rotated" -> Rotated(t)

InitFeatures ==
    /\ \E n1 \in 0..MaxPartRows : \E n2 \in 0..MaxOtherRows :
          \E gap \in 0..n1 : \E o \in Orders :
              df = WithIndex(InOrder(FeatTable(n1, n2, gap), o))
    /\ input = <<>>
    /\ pc = "cleaned"
    /\ bounds = NoBounds
    /\ threshold = NaN
    /\ EnvIdle

\* df = engineer_features(df)
EngineerFeatures ==
    /\ pc = "cleaned"
    /\ input' = df
    /\ df' = engineer_features(df)
    /\ pc' = "engineered"
    /\ UNCHANGED <<bounds, threshold, envVars>>

NextFeatures == EngineerFeatures

SpecFeatures == InitFeatures /\ [][NextFeatures]_vars

(* ------------------------------------------------------------------ *)
(* Table objects: the table a caller passes and the table a stage       *)
(* works on.  Every stage starts with df = df.copy(); what it then      *)
(* assigns or changes in place goes to the object named by its local    *)
(* df.                                                                  *)
(* ------------------------------------------------------------------ *)
MaxFrameRows == 3   \* rows of a table passed to a stage on its own

\* variant: the stage goes on with the caller's table
DfCopy_SameObject(obj) == obj

\* df.copy(): a new table object
DfCopy(obj) == "copy"

\* df.sort_values(...) without inplace: a new table object
SortValuesObject(obj) == "sorted"

\* the caller's table and the returned table once a stage that was passed
\* t, worked on the object local and left out in it, has returned
AfterCall(t, local, out) ==
    [arg |-> IF local = "arg" THEN out ELSE t, ret |-> out]

CallCleanData(t) == AfterCall(t, DfCopy("arg"), clean_data(t))
CallEngineerFeatures(t) ==
    AfterCall(t, SortValuesObject(DfCopy("arg")), engineer_features(t))
CallComputeZScores(t) == AfterCall(t, DfCopy("arg"), compute_z_scores(t))
CallFlagZscoreAnomalies(t, thr) ==
    AfterCall(t, DfCopy("arg"), flag_zscore_anomalies(t, thr))
CallFlagIqrAnomalies(t, b) ==
    AfterCall(t, DfCopy("arg"), flag_iqr_anomalies(t, b, SensorCols))
CallCombinedAnomalyScore(t) ==
    AfterCall(t, DfCopy("arg"), combined_anomaly_score(t))

\* tables passed: raw rows in any order, repeated keys included
FrameTables ==
    {WithIndex(t) : t \in UNION {[1..n -> PipeRows] : n \in 1..MaxFrameRows}}

\* the caller passes a table to clean_data or directly to engineer_features
InitFrames ==
    /\ df \in FrameTables
    /\ input = <<>>
    /\ pc \in {"to_clean", "to_features"}
    /\ bounds = NoBounds
    /\ threshold = NaN
    /\ EnvIdle

\* one call of a stage: input is the caller's table after the call, df the
\* table returned, runs the table as it was passed and the stage called
Returned(stage, passed, res, next) ==
    /\ input' = res.arg
    /\ df' = res.ret
    /\ runs' = <<[input |-> passed, output |-> res.ret, stage |-> stage]>>
    /\ pc' = next
    /\ UNCHANGED <<fs, raised, otherVars>>

FrameCleanData ==
    /\ pc = "to_clean"
    /\ Returned("clean_data", df, CallCleanData(df), "to_features")
    /\ UNCHANGED <<bounds, threshold>>

FrameEngineerFeatures ==
    /\ pc = "to_features"
    /\ Returned("engineer_features", df, CallEngineerFeatures(df), "to_zscores")
    /\ UNCHANGED <<bounds, threshold>>

FrameComputeZScores ==
    /\ pc = "to_zscores"
    /\ Returned("compute_z_scores", df, CallComputeZScores(df), "to_zflag")
    /\ UNCHANGED <<bounds, threshold>>

FrameFlagZscoreAnomalies ==
    /\ pc = "to_zflag"
    /\ \E thr \in Thresholds :
          /\ threshold' = thr
          /\ Returned("flag_zscore_anomalies", df,
                      CallFlagZscoreAnomalies(df, thr), "to_bounds")
    /\ UNCHANGED bounds

\* bounds = compute_iqr_bounds(df): reads the table, returns a dict
FrameComputeIqrBounds ==
    /\ pc = "to_bounds"
    /\ bounds' = compute_iqr_bounds(df, SensorCols, IQR_MULTIPLIER)
    /\ pc' = "to_iqrflag"
    /\ UNCHANGED <<df, input, threshold, envVars>>

FrameFlagIqrAnomalies ==
    /\ pc = "to_iqrflag"
    /\ Returned("flag_iqr_anomalies", df, CallFlagIqrAnomalies(df, bounds),
                "to_combine")
    /\ UNCHANGED <<bounds, threshold>>

FrameCombinedAnomalyScore ==
    /\ pc = "to_combine"
    /\ Returned("combined_anomaly_score", df, CallCombinedAnomalyScore(df),
                "done")
    /\ UNCHANGED <<bounds, threshold>>

NextFrames ==
    \/ FrameCleanData
    \/ FrameEngineerFeatures
    \/ FrameComputeZScores
    \/ FrameFlagZscoreAnomalies
    \/ FrameComputeIqrBounds
    \/ FrameFlagIqrAnomalies
    \/ FrameCombinedAnomalyScore

SpecFrames == InitFrames /\ [][NextFrames]_vars

(* ------------------------------------------------------------------ *)
(* network_monitor/monitor.py: CheckResult and check_device             *)
(* result holds the fields of the CheckResult (before it is built, the  *)
(* locals ping_ok, open_ports, closed_ports of check_device) and the    *)
(* value last read from its status property.                            *)
(* ------------------------------------------------------------------ *)
MaxPorts == 3       \* length of a ports list passed to check_device

\* ports = [22, 80, 443] when ports is None
DEFAULT_PORTS == <<22, 80, 443>>

\* variant: the port lists are looked at before the ping
Status_PortsFirst(r) ==
    IF r.closed_ports # <<>> THEN "DEGRADED"
    ELSE IF ~r.ping_ok THEN "OFFLINE"
    ELSE "ONLINE"

\* CheckResult.status
Status(r) ==
    IF ~r.ping_ok THEN "OFFLINE"
    ELSE IF r.closed_ports # <<>> THEN "DEGRADED"
    ELSE "ONLINE"

\* the local ports of check_device
Requested(req) == IF ~req.given THEN DEFAULT_PORTS ELSE req.ports

\* variant: the ports are probed whatever the ping said
PortsToProbe_Always(ping_ok, ports) == ports

\* the ports the loop of check_device goes over
PortsToProbe(ping_ok, ports) == IF ping_ok THEN ports ELSE <<>>

\* port numbers a caller asks for
PortNumbers == {DEFAULT_PORTS[j] : j \in 1..Len(DEFAULT_PORTS)}

\* ports lists passed: any order, repeats and the empty list included
PortLists == UNION {[1..n -> PortNumbers] : n \in 0..MaxPorts}

InitMonitor ==
    /\ df = <<>>
    /\ input = <<>>
    /\ pc = "idle"
    /\ bounds = NoBounds
    /\ threshold = NaN
    /\ EnvIdle

\* CheckResult(host, timestamp, ping_ok, latency, open_ports, closed_ports)
\* built by a caller with fields of its choice
NewCheckResult ==
    /\ pc = "idle"
    /\ \E ok \in BOOLEAN : \E open, closed \in PortLists :
          /\ Len(open) + Len(closed) <= MaxPorts
          /\ result' = [ping_ok |-> ok, open_ports |-> open,
                        closed_ports |-> closed, status |-> "none"]
    /\ pc' = "built"
    /\ UNCHANGED <<df, input, bounds, threshold, runs, fs, raised, caller, rng,
                   request, probes, db, conn, todo, ret>>

\* check_device(host) or check_device(host, ports)
CheckDeviceCalled ==
    /\ pc = "idle"
    /\ \E req \in {NoRequest} \cup {[given |-> TRUE, ports |-> p] : p \in PortLists} :
          request' = req
    /\ pc' = "called"
    /\ UNCHANGED <<df, input, bounds, threshold, runs, fs, raised, caller, rng,
                   probes, result, db, conn, todo, ret>>

\* ping_ok, latency = ping_host(host)
PingHost ==
    /\ pc = "called"
    /\ \E ok \in BOOLEAN : result' = [result EXCEPT !.ping_ok = ok]
    /\ pc' = "pinged"
    /\ UNCHANGED <<df, input, bounds, threshold, runs, fs, raised, caller, rng,
                   request, probes, db, conn, todo, ret>>

\* one round of the loop: check_port(host, port) and the append
CheckPort ==
    /\ pc = "pinged"
    /\ Len(probes) < Len(PortsToProbe(result.ping_ok, Requested(request)))
    /\ \E ok \in BOOLEAN :
          \E port \in {PortsToProbe(result.ping_ok,
                                    Requested(request))[Len(probes) + 1]} :
              /\ probes' = Append(probes, [port |-> port, ok |-> ok])
              /\ result' = IF ok
                           THEN [result EXCEPT !.open_ports = Append(@, port)]
                           ELSE [result EXCEPT !.closed_ports = Append(@, port)]
    /\ UNCHANGED <<df, input, pc, bounds, threshold, runs, fs, raised, caller,
                   rng, request, db, conn, todo, ret>>

\* result = CheckResult(...), the log line that reads result.status, return
CheckDeviceReturns ==
    /\ pc = "pinged"
    /\ Len(probes) = Len(PortsToProbe(result.ping_ok, Requested(request)))
    /\ result' = [result EXCEPT !.status = Status(result)]
    /\ pc' = "returned"
    /\ UNCHANGED <<df, input, bounds, threshold, runs, fs, raised, caller, rng,
                   request, probes, db, conn, todo, ret>>

\* r.status read on a CheckResult a caller built
ReadStatus ==
    /\ pc = "built"
    /\ result' = [result EXCEPT !.status = Status(result)]
    /\ pc' = "read"
    /\ UNCHANGED <<df, input, bounds, threshold, runs, fs, raised, caller, rng,
                   request, probes, db, conn, todo, ret>>

NextMonitor ==
    \/ NewCheckResult
    \/ CheckDeviceCalled
    \/ PingHost
    \/ CheckPort
    \/ CheckDeviceReturns
    \/ ReadStatus

SpecMonitor == InitMonitor /\ [][NextMonitor]_vars

(* ------------------------------------------------------------------ *)
(* data_generator.py: generate_sensor_data                              *)
(* The process-wide generators of random and numpy.random are each a    *)
(* seed and the number of values drawn since seeding; the k-th value of *)
(* a stream is a function of the seed and k.  Times are seconds.        *)
(* ------------------------------------------------------------------ *)
MaxSamples == 5     \* n_samples passed to generate_sensor_data
MaxDraws == 2       \* values drawn elsewhere between two calls

\* "mean" and "std" of BASE_PARAMS, in the order of the dict
BASE_PARAMS ==
    <<[sensor |-> "temperature_c",  mean |-> Num(65),    std |-> Num(2)],
      [sensor |-> "vibration_mm_s", mean |-> Rat(6, 5),  std |-> Rat(3, 20)],
      [sensor |-> "pressure_bar",   mean |-> Rat(13, 2), std |-> Rat(3, 10)],
      [sensor |-> "cycle_time_s",   mean |-> Num(12),    std |-> Rat(1, 2)]>>

ANOMALY_FACTOR == <<Rat(7, 5), Rat(11, 5)>>

\* the k-th value of random.random() after random.seed(seed): in [0, 1)
Uniform01(seed, k) == Rat((seed * 3 + k + (k \div 3)) % 4, 4)

\* the k-th standard normal value of numpy.random after seed(seed); the far
\* negative one stands for the tail that takes a reading below 0
StdNormals == <<0, 1, -1, 2, -40>>
StdNormal(seed, k) == Num(StdNormals[((seed + 2 * k) % Len(StdNormals)) + 1])

\* random.uniform(a, b) on the generator state g, and the state after it
RandomUniform(g, a, b) ==
    FAdd(a, FMul(FSub(b, a), Uniform01(g.seed, g.pos + 1)))

Advance(g) == [g EXCEPT !.pos = @ + 1]
AdvanceBy(g, n) == [g EXCEPT !.pos = @ + n]

\* round(x, d) for a value that is no tie
Round(x, d) ==
    Only({Rat((2 * x[1] * p + x[2]) \div (2 * x[2]), p)
          : p \in {IF d = 3 THEN 1000 ELSE 10}})

\* variant: the reading is not cut at 0
NonNegative_Unclamped(x) == x

\* max(0.0, x)
NonNegative(x) == IF FLt(Zero, x) THEN x ELSE Zero

\* variant: only numpy.random is seeded
Reseed_NumpyOnly(r, seed) ==
    [r EXCEPT !.numpy = [seed |-> seed, pos |-> 0]]

\* np.random.seed(seed); random.seed(seed)
Reseed(r, seed) ==
    [random |-> [seed |-> seed, pos |-> 0],
     numpy |-> [seed |-> seed, pos |-> 0]]

\* _generate_sample: the row, given the generators before the call
GenerateSample(r, machine, ts, hours, anomaly) ==
    LET factor == IF anomaly
                  THEN RandomUniform(r.random, ANOMALY_FACTOR[1],
                                     ANOMALY_FACTOR[2])
                  ELSE Num(1)
    IN  [c \in {"timestamp", "machine_id", "operating_hours", "label"}
               \cup {BASE_PARAMS[j].sensor : j \in 1..Len(BASE_PARAMS)} |->
            CASE c = "timestamp" -> ts
              [] c = "machine_id" -> machine
              [] c = "operating_hours" -> Round(hours, 1)
              [] c = "label" -> IF anomaly THEN 1 ELSE 0
              [] OTHER ->
                    LET j == CHOOSE n \in 1..Len(BASE_PARAMS) :
                                 BASE_PARAMS[n].sensor = c
                        value == FMul(FAdd(BASE_PARAMS[j].mean,
                                           FMul(BASE_PARAMS[j].std,
                                                StdNormal(r.numpy.seed,
                                                          r.numpy.pos + j))),
                                      factor)
                    IN  NonNegative(Round(value, 3))]

\* the generators after _generate_sample
AfterSample(r, anomaly) ==
    [random |-> IF anomaly THEN Advance(r.random) ELSE r.random,
     numpy |-> AdvanceBy(r.numpy, Len(BASE_PARAMS))]

\* the loop of generate_sensor_data from round i (0-based) on: st holds
\* the generators, op_hours, the records and the anomaly draws so far
RECURSIVE GenerateLoop(_, _, _)
GenerateLoop(a, i, st) ==
    IF i >= a.n_samples THEN st
    ELSE LET machine == MACHINES[(i % Len(MACHINES)) + 1]
             ts == a.start_time + i * a.interval_seconds
             is_anomaly == FLt(Uniform01(st.rng.random.seed,
                                         st.rng.random.pos + 1),
                               a.anomaly_rate)
             r1 == [st.rng EXCEPT !.random = Advance(@)]
             hours == FAdd(st.op_hours[machine],
                           Rat(a.interval_seconds, 3600))
         IN  GenerateLoop(a, i + 1,
                 [rng |-> AfterSample(r1, is_anomaly),
                  op_hours |-> [st.op_hours EXCEPT ![machine] = hours],
                  records |-> Append(st.records,
                                 GenerateSample(r1, machine, ts, hours,
                                                is_anomaly)),
                  anomalies |-> Append(st.anomalies, is_anomaly)])

\* op_hours = {m: random.uniform(500, 5_000) for m in MACHINES}
InitialHours(g) ==
    [m \in {MACHINES[j] : j \in 1..Len(MACHINES)} |->
        LET j == CHOOSE n \in 1..Len(MACHINES) : MACHINES[n] = m
        IN  RandomUniform(AdvanceBy(g, j - 1), Num(500), Num(5000))]

\* generate_sensor_data(**a) in a process whose generators are r: the
\* table, the generators afterwards and the anomaly draws of the rows
generate_sensor_data(a, r) ==
    Only({GenerateLoop(a, 0,
              [rng |-> [s EXCEPT !.random = AdvanceBy(@, Len(MACHINES))],
               op_hours |-> InitialHours(s.random),
               records |-> <<>>,
               anomalies |-> <<>>])
          : s \in {Reseed(r, a.seed)}})

\* arguments passed; start_time None is datetime(2024, 1, 1), time 0 here
GeneratorArgs ==
    [n_samples : 0..MaxSamples,
     anomaly_rate : {Zero, Rat(1, 2), Num(1)},
     start_time : {0, 86400},
     interval_seconds : {60, 3600},
     seed : {1, 2}]

\* a fresh process: both generators seeded from the operating system
InitGenerator ==
    /\ df = <<>>
    /\ input = <<>>
    /\ pc = "idle"
    /\ bounds = NoBounds
    /\ threshold = NaN
    /\ runs = <<>>
    /\ fs = NoFiles
    /\ raised = NoError
    /\ caller = "none"
    /\ rng = NoRng
    /\ NetIdle
    /\ SalesIdle

\* the state after a call with the arguments a; runs gets the call: its
\* arguments, the generators it found, its table and its anomaly draws
Generate(a, calls) ==
    \E res \in {generate_sensor_data(a, rng)} :
        /\ df' = res.records
        /\ input' = a
        /\ rng' = res.rng
        /\ runs' = Append(calls, [input |-> a, found |-> rng, left |-> res.rng,
                                  output |-> res.records,
                                  anomalies |-> res.anomalies])

GenerateSensorData ==
    /\ pc = "idle"
    /\ \E a \in GeneratorArgs : Generate(a, <<>>)
    /\ pc' = "generated"
    /\ UNCHANGED <<bounds, threshold, fs, raised, caller, request, probes,
                   result, db, conn, todo, ret>>

\* the values drawn from generator g since the call or since it was seeded
DrawnSince(g) ==
    IF rng[g].seed = runs[1].left[g].seed /\ rng[g].pos >= runs[1].left[g].pos
    THEN rng[g].pos - runs[1].left[g].pos
    ELSE rng[g].pos

\* other code of the process draws from one of the generators
DrawElsewhere ==
    /\ pc = "generated"
    /\ \E g \in {"random", "numpy"} :
          /\ DrawnSince(g) < MaxDraws
          /\ rng' = [rng EXCEPT ![g] = Advance(@)]
    /\ UNCHANGED <<df, input, pc, bounds, threshold, runs, fs, raised, caller,
                   request, probes, result, db, conn, todo, ret>>

\* other code of the process seeds one of the generators
SeedElsewhere ==
    /\ pc = "generated"
    /\ \E g \in {"random", "numpy"} : \E s \in {1, 3} :
          rng' = [rng EXCEPT ![g] = [seed |-> s, pos |-> 0]]
    /\ UNCHANGED <<df, input, pc, bounds, threshold, runs, fs, raised, caller,
                   request, probes, result, db, conn, todo, ret>>

\* generate_sensor_data is called again with the arguments of the first call
GenerateAgain ==
    /\ pc = "generated"
    /\ Generate(runs[1].input, runs)
    /\ pc' = "repeated"
    /\ UNCHANGED <<bounds, threshold, fs, raised, caller, request, probes,
                   result, db, conn, todo, ret>>

NextGenerator ==
    \/ GenerateSensorData
    \/ DrawElsewhere
    \/ SeedElsewhere
    \/ GenerateAgain

SpecGenerator == InitGenerator /\ [][NextGenerator]_vars

(* ------------------------------------------------------------------ *)
(* Sales dashboard: database.py and data_seeder.py (SpecSales)          *)
(* ------------------------------------------------------------------ *)
\* db is the database file (what is committed), conn the connection of the
\* get_connection block that is open: base is the file when the block
\* opened, work what the connection sees, tx whether a transaction is
\* open. todo holds the statements the call still has to run, ret the
\* values returned and passed on, runs the call and the file it found.
MaxSales == 2       \* rows of the sales table

\* the names of PRODUCTS and CUSTOMERS
PRODUCTS ==
    <<"Produkt A - Basic", "Produkt B - Pro", "Produkt C - Enterprise",
      "Hardware Kit S", "Hardware Kit L", "Support Basic",
      "Support Premium", "Consulting Tag", "Lizenz Annual",
      "Lizenz Multi-User">>

CUSTOMERS ==
    <<"Alpha GmbH", "Beta AG", "Gamma Solutions", "Delta Corp",
      "Epsilon Tech", "Kunde Zeta", "Kunde Eta", "Kunde Theta",
      "Iota Startup", "Kappa Handel">>

\* the objects the statements of SCHEMA_SQL create, in script order
SCHEMA_SQL ==
    <<"products", "customers", "sales", "idx_sales_date",
      "idx_sales_product", "idx_sales_customer">>

\* the table an object of the schema is built on
OnTable(obj) ==
    IF obj \in {"idx_sales_date", "idx_sales_product", "idx_sales_customer"}
    THEN "sales" ELSE obj

\* n of the generate_sales call in setup_demo_db (2000 in the code)
DemoRecords == MaxSales

NULL == 0

Ids(rows) == [i \in 1..Len(rows) |-> rows[i].id]

Op(o, k) == [op |-> o, k |-> k]

\* with get_connection(db_path) as conn: conn.executescript(SCHEMA_SQL)
InitDbBody == <<Op("connect", 0), Op("executescript", 1), Op("exit", 0)>>

\* seed_master_data up to the test of line 45
SeedBody == <<Op("connect", 0), Op("count_products", 0)>>

\* generate_sales(n): seed_master_data, the prices block, the records, the
\* insert block
GenerateSalesBody(n) ==
    SeedBody \o <<Op("connect", 0), Op("select_prices", 0), Op("exit", 0),
                  Op("build_records", n),
                  Op("connect", 0), Op("executemany", 1), Op("exit", 0)>>

\* setup_demo_db: init_db, the count block, the test of line 146
SetupDemoDbBody ==
    InitDbBody \o <<Op("connect", 0), Op("count_sales", 0), Op("exit", 0),
                    Op("if_empty", 0)>>

\* insert_sales_batch(records)
InsertSalesBatchBody ==
    <<Op("connect", 0), Op("executemany", 1), Op("exit", 0)>>

\* variant: the test of line 45 never finds products
AlreadySeeded_Never(view) == FALSE

\* SELECT COUNT(*) FROM products > 0
AlreadySeeded(view) == Len(view.products) > 0

\* the foreign keys of a sales row hold in the view of the connection
ForeignKeysOk(view, rec) ==
    /\ rec.product_id = NULL
          \/ \E i \in 1..Len(view.products) :
                view.products[i].id = rec.product_id
    /\ rec.customer_id = NULL
          \/ \E i \in 1..Len(view.customers) :
                view.customers[i].id = rec.customer_id

\* the ids random.choice is followed on: the first and the last of the list
Choices(ids) == {ids[1], ids[Len(ids)]}

\* records a caller passes to insert_sales_batch: valid ones, one without
\* product, one with a product_id and one with a customer_id that no row has
BatchRecords ==
    {[product_id |-> 1, customer_id |-> 1],
     [product_id |-> NULL, customer_id |-> 10],
     [product_id |-> 11, customer_id |-> 1],
     [product_id |-> 10, customer_id |-> 11]}

\* a fresh process and no database file
InitSales ==
    /\ df = <<>>
    /\ input = <<>>
    /\ pc = "idle"
    /\ bounds = NoBounds
    /\ threshold = NaN
    /\ runs = <<>>
    /\ fs = NoFiles
    /\ raised = NoError
    /\ caller = "none"
    /\ GenIdle
    /\ NetIdle
    /\ SalesIdle

salesFixed ==
    <<df, input, bounds, threshold, fs, caller, rng, request, probes, result>>

\* a call of function name starts on the database as it is
Call(name, body, recs) ==
    /\ pc = "idle"
    /\ pc' = "running"
    /\ runs' = <<[call |-> name, before |-> db, records |-> recs]>>
    /\ todo' = body
    /\ conn' = NoConn
    /\ ret' = [NoRet EXCEPT !.records = recs]
    /\ raised' = NoError
    /\ UNCHANGED <<db, salesFixed>>

CallInitDb == Call("init_db", InitDbBody, <<>>)

CallSeedMasterData == Call("seed_master_data", SeedBody, <<>>)

CallGenerateSales ==
    \E n \in 0..(MaxSales - Len(db.sales)) :
        Call("generate_sales", GenerateSalesBody(n), <<>>)

CallSetupDemoDb == Call("setup_demo_db", SetupDemoDbBody, <<>>)

CallInsertSalesBatch ==
    \E n \in 0..(MaxSales - Len(db.sales)) :
        \E recs \in [1..n -> BatchRecords] :
            Call("insert_sales_batch", InsertSalesBatchBody, recs)

\* the next statement of the call is op o
At(o) == pc = "running" /\ todo # <<>> /\ todo[1].op = o

\* the statement raises inside the block: rollback, close, and the
\* exception leaves the call
Raise(type) ==
    /\ raised' = [type |-> type, by |-> runs[1].call, missing |-> {}]
    /\ conn' = [conn EXCEPT !.state = "closed", !.tx = FALSE]
    /\ todo' = <<>>
    /\ pc' = "idle"
    /\ UNCHANGED <<db, ret, runs, salesFixed>>

\* sqlite3.connect, row_factory, PRAGMA foreign_keys = ON
Connect ==
    /\ At("connect")
    /\ conn' = [state |-> "open", base |-> db, work |-> db, tx |-> FALSE]
    /\ todo' = Tail(todo)
    /\ UNCHANGED <<db, ret, runs, raised, pc, salesFixed>>

\* conn.executescript(SCHEMA_SQL), one statement: a pending transaction is
\* committed first, and the statement runs outside any transaction, so
\* what it creates is in the file at once
ExecuteScript ==
    /\ At("executescript")
    /\ LET k == todo[1].k
           obj == SCHEMA_SQL[k]
           file == IF conn.tx THEN conn.work ELSE db
       IN  IF OnTable(obj) # obj /\ OnTable(obj) \notin file.schema
           THEN Raise("OperationalError")
           ELSE /\ db' = [file EXCEPT !.schema = @ \cup {obj}]
                /\ conn' = [conn EXCEPT !.work = db', !.tx = FALSE]
                /\ todo' = IF k < Len(SCHEMA_SQL)
                           THEN <<Op("executescript", k + 1)>> \o Tail(todo)
                           ELSE Tail(todo)
                /\ UNCHANGED <<ret, runs, raised, pc, salesFixed>>

\* seed_master_data, line 45: the test, and what the call goes on with
CountProducts ==
    /\ At("count_products")
    /\ IF "products" \notin conn.work.schema
       THEN Raise("OperationalError")
       ELSE /\ todo' = (IF AlreadySeeded(conn.work)
                        THEN <<Op("select_ids", 0), Op("exit", 0)>>
                        ELSE <<Op("insert_product", 1)>>) \o Tail(todo)
            /\ UNCHANGED <<db, conn, ret, runs, raised, pc, salesFixed>>

\* seed_master_data, lines 46-48: the ids of the rows there are
SelectIds ==
    /\ At("select_ids")
    /\ IF "customers" \notin conn.work.schema
       THEN Raise("OperationalError")
       ELSE /\ ret' = [ret EXCEPT !.product_ids = Ids(conn.work.products),
                                  !.customer_ids = Ids(conn.work.customers)]
            /\ todo' = Tail(todo)
            /\ UNCHANGED <<db, conn, runs, raised, pc, salesFixed>>

\* seed_master_data, lines 51-56: one INSERT INTO products
InsertProduct ==
    /\ At("insert_product")
    /\ LET k == todo[1].k
           id == Len(conn.work.products) + 1
       IN  /\ conn' = [conn EXCEPT
                          !.work.products =
                              Append(@, [id |-> id, name |-> PRODUCTS[k]]),
                          !.tx = TRUE]
           /\ ret' = [ret EXCEPT !.product_ids = Append(@, id)]
           /\ todo' = <<IF k < Len(PRODUCTS) THEN Op("insert_product", k + 1)
                        ELSE Op("insert_customer", 1)>> \o Tail(todo)
    /\ UNCHANGED <<db, runs, raised, pc, salesFixed>>

\* seed_master_data, lines 58-63: one INSERT INTO customers
InsertCustomer ==
    /\ At("insert_customer")
    /\ IF "customers" \notin conn.work.schema
       THEN Raise("OperationalError")
       ELSE LET k == todo[1].k
                id == Len(conn.work.customers) + 1
            IN  /\ conn' = [conn EXCEPT
                               !.work.customers =
                                   Append(@, [id |-> id,
                                              name |-> CUSTOMERS[k]]),
                               !.tx = TRUE]
                /\ ret' = [ret EXCEPT !.customer_ids = Append(@, id)]
                /\ todo' = <<IF k < Len(CUSTOMERS)
                             THEN Op("insert_customer", k + 1)
                             ELSE Op("exit", 0)>> \o Tail(todo)
                /\ UNCHANGED <<db, runs, raised, pc, salesFixed>>

\* generate_sales, lines 100-104
SelectPrices ==
    /\ At("select_prices")
    /\ IF "products" \notin conn.work.schema
       THEN Raise("OperationalError")
       ELSE /\ todo' = Tail(todo)
            /\ UNCHANGED <<db, conn, ret, runs, raised, pc, salesFixed>>

\* generate_sales, lines 106-128: n records over the ids seed_master_data
\* returned
BuildRecords ==
    /\ At("build_records")
    /\ \E recs \in [1..todo[1].k ->
                       [product_id : Choices(ret.product_ids),
                        customer_id : Choices(ret.customer_ids)]] :
          ret' = [ret EXCEPT !.records = recs]
    /\ todo' = Tail(todo)
    /\ UNCHANGED <<db, conn, runs, raised, pc, salesFixed>>

\* conn.executemany(INSERT INTO sales ..., records), one record
ExecuteMany ==
    /\ At("executemany")
    /\ LET k == todo[1].k
       IN  IF Len(ret.records) = 0
           THEN /\ todo' = Tail(todo)
                /\ UNCHANGED <<db, conn, ret, runs, raised, pc, salesFixed>>
           ELSE IF {"sales", "products", "customers"}
                       \ conn.work.schema # {}
           THEN Raise("OperationalError")
           ELSE IF ~ForeignKeysOk(conn.work, ret.records[k])
           THEN Raise("IntegrityError")
           ELSE /\ conn' = [conn EXCEPT
                               !.work.sales =
                                   Append(@, [id |-> Len(@) + 1,
                                              product_id |->
                                                  ret.records[k].product_id,
                                              customer_id |->
                                                  ret.records[k].customer_id]),
                               !.tx = TRUE]
                /\ todo' = IF k < Len(ret.records)
                           THEN <<Op("executemany", k + 1)>> \o Tail(todo)
                           ELSE Tail(todo)
                /\ UNCHANGED <<db, ret, runs, raised, pc, salesFixed>>

\* setup_demo_db, line 145
CountSales ==
    /\ At("count_sales")
    /\ IF "sales" \notin conn.work.schema
       THEN Raise("OperationalError")
       ELSE /\ ret' = [ret EXCEPT !.count = Len(conn.work.sales)]
            /\ todo' = Tail(todo)
            /\ UNCHANGED <<db, conn, runs, raised, pc, salesFixed>>

\* setup_demo_db, lines 146-150
IfEmpty ==
    /\ At("if_empty")
    /\ todo' = (IF ret.count = 0 THEN GenerateSalesBody(DemoRecords)
                ELSE <<>>) \o Tail(todo)
    /\ UNCHANGED <<db, conn, ret, runs, raised, pc, salesFixed>>

\* the block ends without exception: conn.commit(), conn.close()
ExitBlock ==
    /\ At("exit")
    /\ db' = IF conn.tx THEN conn.work ELSE db
    /\ conn' = [conn EXCEPT !.state = "closed", !.tx = FALSE]
    /\ todo' = Tail(todo)
    /\ UNCHANGED <<ret, runs, raised, pc, salesFixed>>

\* the statements that reach the database file
Statements ==
    {"executescript", "count_products", "select_ids", "insert_product",
     "insert_customer", "select_prices", "executemany", "count_sales"}

\* the database file cannot be read or written (locked by another process,
\* disk full): the statement raises sqlite3.OperationalError
StatementFails ==
    /\ pc = "running"
    /\ todo # <<>>
    /\ todo[1].op \in Statements
    /\ Raise("OperationalError")

\* the call returns
Return ==
    /\ pc = "running"
    /\ todo = <<>>
    /\ pc' = "idle"
    /\ UNCHANGED <<db, conn, todo, ret, runs, raised, salesFixed>>

NextSales ==
    \/ CallInitDb
    \/ CallSeedMasterData
    \/ CallGenerateSales
    \/ CallSetupDemoDb
    \/ CallInsertSalesBatch
    \/ Connect
    \/ ExecuteScript
    \/ CountProducts
    \/ SelectIds
    \/ InsertProduct
    \/ InsertCustomer
    \/ SelectPrices
    \/ BuildRecords
    \/ ExecuteMany
    \/ CountSales
    \/ IfEmpty
    \/ ExitBlock
    \/ StatementFails
    \/ Return

SpecSales == InitSales /\ [][NextSales]_vars

(* ------------------------------------------------------------------ *)
(* Properties of the cleaning stage (checked under SpecClean)           *)
(* ------------------------------------------------------------------ *)
Lower(c) == VALUE_RANGES[c][1]
Upper(c) == VALUE_RANGES[c][2]

Keys(t) == {Key(t[i]) : i \in 1..Len(t)}

\* C3: after clean_data every range-checked value of every row lies in the
\* closed interval of its column; an input value below the lower bound has
\* become the lower bound and one above the upper bound the upper bound.
C3_ValuesWithinRange ==
    pc = "cleaned" =>
        /\ \A i \in 1..Len(df) : \A c \in NumericCols :
              /\ FLe(Lower(c), df[i][c])
              /\ FLe(df[i][c], Upper(c))
        /\ \A i \in 1..Len(df) : \A j \in 1..Len(input) : \A c \in NumericCols :
              df[i].index = input[j].index =>
                  /\ FLt(input[j][c], Lower(c)) => df[i][c] = Lower(c)
                  /\ FLt(Upper(c), input[j][c]) => df[i][c] = Upper(c)

\* C4: after clean_data no sensor value of any row is null.
C4_NoNullAfterCleaning ==
    pc = "cleaned" =>
        \A i \in 1..Len(df) : \A c \in NumericCols : ~IsNaN(df[i][c])

\* C5: clean_data is idempotent: cleaning the cleaned table returns the same
\* rows, in the same order, with the same values.
C5_CleanIdempotent ==
    pc = "recleaned" => df = input

\* a second cleaning of a table of several rows, some of them clipped
C5_Witness ==
    /\ pc = "recleaned"
    /\ Len(df) >= 2
    /\ \E i \in 1..Len(df) : df[i].machine_id # df[1].machine_id
    /\ \E i \in 1..Len(df) : df[i].temperature_c = Upper("temperature_c")
    /\ \E i \in 1..Len(df) : df[i].temperature_c = Lower("temperature_c")

\* C6: the cleaned table has exactly one row for each distinct
\* (timestamp, machine_id) pair of the input, and no other row.
C6_OneRowPerPair ==
    pc = "cleaned" =>
        /\ \A i, j \in 1..Len(df) : Key(df[i]) = Key(df[j]) => i = j
        /\ Keys(df) = Keys(input)
        /\ Len(df) = Cardinality(Keys(input))

\* a cleaning that dropped a duplicate and kept rows with missing and
\* out-of-range readings
C6_Witness ==
    /\ pc = "cleaned"
    /\ Len(df) = 2
    /\ Len(input) = 3
    /\ \E j \in 1..Len(input) : IsNaN(input[j].temperature_c)
    /\ \E j \in 1..Len(input) : FLt(Upper("temperature_c"), input[j].temperature_c)

\* the input row that became row i of the cleaned table (same index label)
RawOf(i) == input[CHOOSE j \in 1..Len(input) : input[j].index = df[i].index]

\* rows of the cleaned table of the machine of row i, before and after it in
\* timestamp order, whose input row holds a value in column c
EarlierWithValue(i, c) ==
    {j \in 1..Len(df) : /\ df[j].machine_id = df[i].machine_id
                        /\ df[j].timestamp < df[i].timestamp
                        /\ ~IsNaN(RawOf(j)[c])}
LaterWithValue(i, c) ==
    {j \in 1..Len(df) : /\ df[j].machine_id = df[i].machine_id
                        /\ df[j].timestamp > df[i].timestamp
                        /\ ~IsNaN(RawOf(j)[c])}
Latest(S) == CHOOSE j \in S : \A l \in S : df[l].timestamp <= df[j].timestamp
Earliest(S) == CHOOSE j \in S : \A l \in S : df[j].timestamp <= df[l].timestamp

\* retained input rows with a value in column c, and the mean of the values
RetainedWithValue(c) ==
    {j \in 1..Len(input) : /\ ~IsNaN(input[j][c])
                           /\ \E i \in 1..Len(df) : df[i].index = input[j].index}
RECURSIVE SumInput(_, _)
SumInput(S, c) ==
    IF S = {} THEN Zero
    ELSE LET j == CHOOSE x \in S : TRUE
         IN  FAdd(input[j][c], SumInput(S \ {j}, c))
ColumnMean(c) ==
    IF RetainedWithValue(c) = {} THEN NaN
    ELSE FDiv(SumInput(RetainedWithValue(c), c),
              Num(Cardinality(RetainedWithValue(c))))

\* the value that replaces a missing value of row i in column c
FillValue(i, c) ==
    IF EarlierWithValue(i, c) # {} THEN RawOf(Latest(EarlierWithValue(i, c)))[c]
    ELSE IF LaterWithValue(i, c) # {}
    THEN RawOf(Earliest(LaterWithValue(i, c)))[c]
    ELSE ColumnMean(c)

FirstOccurrences(t) ==
    LET idx == SelectSeq([j \in 1..Len(t) |-> j],
                         LAMBDA j : \A q \in 1..(j - 1) : Key(t[q]) # Key(t[j]))
    IN  [k \in 1..Len(idx) |-> t[idx[k]]]

\* C17: of the input rows with the same (timestamp, machine_id) pair
\* clean_data keeps the one that comes first after sorting the table by
\* (machine_id, timestamp) and drops the others; the values of the kept
\* rows are the ones that are filled and clipped.
C17_KeepsFirstAfterSort ==
    pc = "cleaned" =>
        \A kept \in {FirstOccurrences(SortValues(input))} :
            /\ [i \in 1..Len(df) |-> df[i].index]
                  = [i \in 1..Len(kept) |-> kept[i].index]
            /\ df = ClipRanges(FillMissing(kept))

\* two input rows of one pair with different readings, the first of them
\* after a row that sorts behind it; the first one is kept
C17_Witness ==
    /\ pc = "cleaned"
    /\ Len(input) = 3
    /\ Len(df) = 2
    /\ Key(input[2]) = Key(input[3])
    /\ input[2].temperature_c # input[3].temperature_c
    /\ ~IsNaN(input[2].temperature_c)
    /\ ~IsNaN(input[3].temperature_c)
    /\ df[1].index = 1
    /\ df[2].index = 0

(* ------------------------------------------------------------------ *)
(* Properties of the scoring stages (checked under Spec)                *)
(* ------------------------------------------------------------------ *)
AfterZScores == pc \in {"zscored", "zflagged", "bounded", "iqrflagged", "scored"}
AfterZFlag == pc \in {"zflagged", "bounded", "iqrflagged", "scored"}
AfterBounds == pc \in {"bounded", "iqrflagged", "scored"}
AfterIqrFlag == pc \in {"iqrflagged", "scored"}

RowsOf(t, m) == {i \in 1..Len(t) : t[i].machine_id = m}
OfMachine(t, m) == SelectSeq(t, LAMBDA r : r.machine_id = m)

\* C1: on every row of the table returned by combined_anomaly_score,
\* anomaly_combined is true exactly when anomaly_zscore or anomaly_iqr is.
C1_CombinedIsOr ==
    pc = "scored" =>
        /\ Len(df) = Len(input)
        /\ \A i \in 1..Len(df) :
              df[i].anomaly_combined
                  = (df[i].anomaly_zscore \/ df[i].anomaly_iqr)

\* a scored table with a row flagged by the z-score only and a row flagged
\* by the IQR only
C1_Witness ==
    /\ pc = "scored"
    /\ \E i \in 1..Len(df) : df[i].anomaly_zscore /\ ~df[i].anomaly_iqr
    /\ \E i \in 1..Len(df) : ~df[i].anomaly_zscore /\ df[i].anomaly_iqr

\* every configured sensor column is constant on the rows of machine m
ConstantPartition(t, m) ==
    /\ RowsOf(t, m) # {}
    /\ \A c \in SensorCols : \A i, j \in RowsOf(t, m) :
          ~IsNaN(t[i][c]) /\ t[i][c] = t[j][c]

\* C2: on a machine partition whose sensor columns are all constant every
\* z-score is 0 and anomaly_zscore is false (for the default threshold, and
\* for the other threshold passed as well), whatever the other machine holds.
C2_FlatPartitionNotFlagged ==
    \A m \in MachineSet :
        AfterZScores /\ ConstantPartition(df, m) =>
            \A i \in RowsOf(df, m) :
                /\ \A c \in SensorCols : df[i][ZCol(c)] = Zero
                /\ AfterZFlag => ~df[i].anomaly_zscore

\* default threshold, a constant partition of two rows next to a machine
\* whose readings vary and differ from it
C2_Witness ==
    /\ pc = "zflagged"
    /\ threshold = Z_THRESHOLD
    /\ \E m \in MachineSet :
          /\ ConstantPartition(df, m)
          /\ Cardinality(RowsOf(df, m)) = 2
          /\ \E j \in 1..Len(df) :
                /\ df[j].machine_id # m
                /\ df[j][ZCol("temperature_c")] # Zero

\* |z| > thr and |z| = thr for a cell <<n, d>> holding z*|z| and thr >= 0
ZAbove(cell, thr) == Abs(cell[1]) * thr[2] * thr[2] > thr[1] * thr[1] * cell[2]
ZEqual(cell, thr) == Abs(cell[1]) * thr[2] * thr[2] = thr[1] * thr[1] * cell[2]

\* C7: anomaly_zscore is true on a row iff the absolute z-score of at
\* least one configured sensor is strictly greater than the threshold.
C7_ZFlagIffAnyExceeds ==
    AfterZFlag =>
        \A i \in 1..Len(df) :
            df[i].anomaly_zscore
                = (\E c \in SensorCols : ZAbove(df[i][ZCol(c)], threshold))

\* a row whose largest absolute z-score equals the threshold is not
\* flagged, next to a row that is flagged
C7_Witness ==
    /\ pc = "zflagged"
    /\ \E i \in 1..Len(df) :
          /\ ~df[i].anomaly_zscore
          /\ \E c \in SensorCols : ZEqual(df[i][ZCol(c)], threshold)
    /\ \E i \in 1..Len(df) : df[i].anomaly_zscore

\* C8: the z-scores and anomaly_zscore of the rows of machine m are those
\* the two stages give on the table reduced to the rows of m, so they do
\* not depend on the rows of other machines (input is the table the last
\* stage was given: the unscored table, then the z-scored one).
C8_ZScorePerMachineOnly ==
    \A m \in MachineSet :
        /\ pc = "zscored" =>
              OfMachine(df, m) = compute_z_scores(OfMachine(input, m))
        /\ pc = "zflagged" =>
              OfMachine(df, m)
                  = flag_zscore_anomalies(OfMachine(input, m), threshold)

\* two machines with different readings, one of them with a flagged row
C8_Witness ==
    /\ pc = "zflagged"
    /\ \E i, j \in 1..Len(df) :
          /\ df[i].machine_id # df[j].machine_id
          /\ df[i].temperature_c # df[j].temperature_c
          /\ df[i].anomaly_zscore
          /\ Cardinality(RowsOf(df, df[i].machine_id)) >= 2

\* pooled order statistics of a column, without reference to any sort:
\* the k-th smallest (k from 0) non-missing value of column c of table t
Pooled(t, c) == {i \in 1..Len(t) : ~IsNaN(t[i][c])}
OrderStat(t, c, k) ==
    LET x == CHOOSE i \in Pooled(t, c) :
                /\ Cardinality({j \in Pooled(t, c) : FLt(t[j][c], t[i][c])}) <= k
                /\ k < Cardinality({j \in Pooled(t, c) : FLe(t[j][c], t[i][c])})
    IN  t[x][c]

\* the qn-th quartile by linear interpolation: with h = (n-1)*qn = 4*lo + r,
\* ((4 - r) * v[lo] + r * v[lo+1]) / 4
Quartile(t, c, qn) ==
    LET n == Cardinality(Pooled(t, c))
        lo == ((n - 1) * qn) \div 4
        r == ((n - 1) * qn) % 4
    IN  IF n = 0 THEN NaN
        ELSE IF r = 0 THEN OrderStat(t, c, lo)
        ELSE FDiv(FAdd(FMul(Num(4 - r), OrderStat(t, c, lo)),
                       FMul(Num(r), OrderStat(t, c, lo + 1))), Num(4))

\* Q1 - 1.5*(Q3 - Q1) = (5*Q1 - 3*Q3)/2 and Q3 + 1.5*(Q3 - Q1) = (5*Q3 - 3*Q1)/2
TukeyLower(t, c) ==
    FDiv(FSub(FMul(Num(5), Quartile(t, c, 1)), FMul(Num(3), Quartile(t, c, 3))),
         Num(2))
TukeyUpper(t, c) ==
    FDiv(FSub(FMul(Num(5), Quartile(t, c, 3)), FMul(Num(3), Quartile(t, c, 1))),
         Num(2))

\* C9: compute_iqr_bounds returns for each configured sensor the one pair
\* (Q1 - 1.5*IQR, Q3 + 1.5*IQR) of the values pooled over all machines, and
\* flag_iqr_anomalies judges the rows of every machine against that pair.
C9_IqrBoundsPooledTukey ==
    AfterBounds =>
        \A tukey \in {[c \in SensorCols |->
                         [lower |-> TukeyLower(df, c),
                          upper |-> TukeyUpper(df, c)]]} :
            /\ bounds = tukey
            /\ AfterIqrFlag =>
                  \A i \in 1..Len(df) :
                      df[i].anomaly_iqr
                          = (\E c \in SensorCols :
                                \/ FLt(df[i][c], tukey[c].lower)
                                \/ FLt(tukey[c].upper, df[i][c]))

\* bounds that need interpolation, over two machines, one row of which is
\* flagged and one not
C9_Witness ==
    /\ pc = "iqrflagged"
    /\ Len(df) = 4
    /\ bounds["temperature_c"].upper[2] > 1
    /\ \E i, j \in 1..Len(df) :
          /\ df[i].machine_id # df[j].machine_id
          /\ df[i].anomaly_iqr
          /\ ~df[j].anomaly_iqr

\* x < y for two non-missing cells, by cross-multiplication
Below(x, y) == x[2] # 0 /\ y[2] # 0 /\ x[1] * y[2] < y[1] * x[2]

\* C10: anomaly_iqr is true on a row iff at least one configured sensor
\* value is strictly below the lower or strictly above the upper bound of
\* that sensor; a value equal to a bound does not flag.
C10_IqrFlagIffStrictlyOutside ==
    AfterIqrFlag =>
        \A i \in 1..Len(df) :
            df[i].anomaly_iqr
                = (\E c \in SensorCols :
                      \/ Below(df[i][c], bounds[c].lower)
                      \/ Below(bounds[c].upper, df[i][c]))

\* a row with a value exactly on the upper bound of a non-empty range is
\* not flagged, next to a flagged row
C10_Witness ==
    /\ pc = "iqrflagged"
    /\ \E i \in 1..Len(df) :
          /\ ~df[i].anomaly_iqr
          /\ \E c \in SensorCols :
                /\ df[i][c] = bounds[c].upper
                /\ bounds[c].lower # bounds[c].upper
    /\ \E i \in 1..Len(df) : df[i].anomaly_iqr

(* ------------------------------------------------------------------ *)
(* Properties of the IQR scenario (checked under SpecScenario)          *)
(* ------------------------------------------------------------------ *)
\* C11: in a table of one machine whose single scored column holds 1, 2, 3,
\* 4 and 100, compute_iqr_bounds followed by flag_iqr_anomalies flags the
\* row holding 100 and none of the rows holding 1, 2, 3, 4.
C11_ScenarioFlagsOnlyHundred ==
    pc = "iqrflagged" =>
        /\ Len(df) = Len(ScenarioValues)
        /\ \A i \in 1..Len(df) : \A c \in DOMAIN bounds :
              df[i].anomaly_iqr = (df[i][c] = Num(100))

\* the flagged table with 100 in the middle, between smaller readings
C11_Witness ==
    /\ pc = "iqrflagged"
    /\ DOMAIN bounds = {"pressure_bar"}
    /\ df[3].anomaly_iqr
    /\ df[3].pressure_bar = Num(100)
    /\ ~df[1].anomaly_iqr
    /\ ~df[5].anomaly_iqr
    /\ bounds["pressure_bar"] = [lower |-> Num(-1), upper |-> Num(7)]

(* ------------------------------------------------------------------ *)
(* Properties of repeated scoring runs (checked under SpecRuns)         *)
(* ------------------------------------------------------------------ *)
\* the three flag columns of a scored table, row by row
Flags(t) ==
    [i \in 1..Len(t) |->
        <<t[i].anomaly_zscore, t[i].anomaly_iqr, t[i].anomaly_combined>>]

AfterLoadData == pc \notin {"main", "generated", "disturbed", "run_pipeline"}

\* C13: load_data raises the file-not-found error when the path does not
\* exist; otherwise it raises the missing-columns error exactly when a
\* required column is absent, and that error names every absent column;
\* when the file exists with all required columns it returns the table.
C13_LoadDataErrors ==
    AfterLoadData =>
        \A absent \in {RequiredColumns \ fs.raw.columns} :
            /\ ~fs.raw.exists => raised.type = "FileNotFoundError"
            /\ fs.raw.exists /\ absent # {} =>
                  /\ raised.type = "ValueError"
                  /\ raised.missing = absent
            /\ fs.raw.exists /\ absent = {} =>
                  /\ raised = NoError
                  /\ pc = "load_ok" => df = WithIndex(fs.raw.rows)

\* C14: when load_data fails inside run_pipeline the exception reaches the
\* caller and the run ends there: the failing step writes no file, and no
\* later step is taken at all (no clean_data, engineer_features or
\* save_processed_data, and in main no scoring, score export or plotting),
\* so the processed file stays as it was.
C14_FailedLoadAborts ==
    [][/\ raised = NoError
       /\ raised' # NoError =>
             /\ pc' = "load_failed"
             /\ fs' = fs
             /\ runs' = runs]_vars

\* main with a raw file that lost columns after it was written: the load
\* failed and the processed file of an earlier run is still there
C14_Witness ==
    /\ pc = "load_failed"
    /\ caller = "main"
    /\ raised.type = "ValueError"
    /\ fs.processed = OldProcessed
    /\ fs.scores = NoFile
    /\ fs.plots = NoFile

(* ------------------------------------------------------------------ *)
(* Properties of engineer_features (checked under SpecFeatures)         *)
(* ------------------------------------------------------------------ *)
\* C15: the output of engineer_features has no null value in any derived
\* column (<sensor>_roll_mean, <sensor>_roll_std, <sensor>_diff), on any row.
C15_NoNullInFeatures ==
    pc = "engineered" =>
        \A i \in 1..Len(df) : \A f \in DOMAIN FeatureOf : ~IsNaN(df[i][f])

\* the rows of the machine of row i up to the timestamp of row i, and the
\* last 10 of them
Partition(t, i) ==
    {j \in 1..Len(t) : /\ t[j].machine_id = t[i].machine_id
                       /\ t[j].timestamp <= t[i].timestamp}
TrailingWindow(t, i) ==
    {j \in Partition(t, i) :
        Cardinality({l \in Partition(t, i) :
                        t[l].timestamp > t[j].timestamp}) < 10}

\* sum of the values, and of their squares, of column c over the rows S
RECURSIVE SumOver(_, _, _)
SumOver(S, t, c) ==
    IF S = {} THEN Zero
    ELSE LET j == CHOOSE x \in S : TRUE
         IN  FAdd(t[j][c], SumOver(S \ {j}, t, c))
RECURSIVE SumSqOver(_, _, _)
SumSqOver(S, t, c) ==
    IF S = {} THEN Zero
    ELSE LET j == CHOOSE x \in S : TRUE
         IN  FAdd(FMul(t[j][c], t[j][c]), SumSqOver(S \ {j}, t, c))

\* C18: on the k-th row of a machine partition in timestamp order,
\* <sensor>_roll_mean is the mean of the last min(k, 10) values of that
\* partition ending at the row and <sensor>_roll_std their standard
\* deviation (here its square, n*(n-1)*s^2 = n*sum(x^2) - sum(x)^2), 0 when
\* k = 1; no row of another machine is in the window.  Stated for windows
\* in which no value is missing.
C18_RollingWindowPerMachine ==
    pc = "engineered" =>
        \A i \in 1..Len(df) : \A c \in NumericCols :
            \A W \in {TrailingWindow(df, i)} : \A n \in {Cardinality(W)} :
                (\A j \in W : ~IsNaN(df[j][c])) =>
                    /\ n = IF Cardinality(Partition(df, i)) < 10
                           THEN Cardinality(Partition(df, i)) ELSE 10
                    /\ FMul(df[i][c \o "_roll_mean"], Num(n))
                          = SumOver(W, df, c)
                    /\ n = 1 => df[i][c \o "_roll_std"] = Zero
                    /\ FMul(df[i][c \o "_roll_std"], Num(n * (n - 1)))
                          = FSub(FMul(Num(n), SumSqOver(W, df, c)),
                                 FMul(SumOver(W, df, c), SumOver(W, df, c)))

\* the eleventh row of a machine, whose window has dropped the first row,
\* in a table that was passed unsorted and holds a second machine
C18_Witness ==
    /\ pc = "engineered"
    /\ Len(input) > WINDOW_SIZE
    /\ input[1].machine_id = MACHINES[2]
    /\ \E i \in 1..Len(df) :
          /\ Cardinality(Partition(df, i)) = 11
          /\ \A j \in Partition(df, i) : ~IsNaN(df[j].temperature_c)
          /\ df[i].temperature_c_roll_std # Zero
          /\ FLt(df[i - 1].temperature_c_roll_mean,
                 df[i].temperature_c_roll_mean)

\* C19: <sensor>_diff is 0 on the first row (in timestamp order) of every
\* machine partition and elsewhere the row's value minus the value of the
\* preceding row of the same machine, never of another machine.  Stated
\* for pairs of rows in which no value is missing.
C19_DiffPerMachine ==
    pc = "engineered" =>
        \A i \in 1..Len(df) : \A c \in NumericCols :
            \A P \in {Partition(df, i) \ {i}} :
                IF P = {} THEN df[i][c \o "_diff"] = Zero
                ELSE \A j \in {CHOOSE j \in P :
                                  \A l \in P : df[l].timestamp <= df[j].timestamp} :
                        ~IsNaN(df[i][c]) /\ ~IsNaN(df[j][c]) =>
                            FAdd(df[i][c \o "_diff"], df[j][c]) = df[i][c]

\* the first row of the second machine follows the last row of the first
\* machine, holds another value and has the difference 0
C19_Witness ==
    /\ pc = "engineered"
    /\ \E i \in 2..Len(df) :
          /\ df[i].machine_id # df[i - 1].machine_id
          /\ df[i].temperature_c # df[i - 1].temperature_c
          /\ df[i].temperature_c_diff = Zero
          /\ df[i - 1].temperature_c_diff # Zero

\* C20: engineer_features gives the same derived values for every row
\* whatever the row order of the table passed (the rows have unique
\* (machine_id, timestamp) pairs), and its output is ordered by
\* (machine_id, timestamp).
C20_OrderIndependent ==
    pc = "engineered" =>
        /\ \A q \in {Reversed(input), Rotated(input), SortValues(input)} :
              engineer_features(q) = df
        /\ \A i, j \in 1..Len(df) :
              i < j => /\ RowLe(df[i], df[j])
                       /\ Key(df[i]) # Key(df[j])

\* a table of two machines passed in descending order
C20_Witness ==
    /\ pc = "engineered"
    /\ Len(df) >= 4
    /\ input[1].machine_id = MACHINES[2]
    /\ input[Len(input)].machine_id = MACHINES[1]
    /\ input[Len(input)].timestamp = 1
    /\ df[1].index = Len(df) - 1
    /\ df[Len(df)].temperature_c_diff # Zero

(* ------------------------------------------------------------------ *)
(* Single-row machine partitions through run_pipeline and main          *)
(* (checked under SpecPipeline)                                         *)
(* ------------------------------------------------------------------ *)
\* the rows of df that are the only row of their machine
SingleRows(t) ==
    {i \in 1..Len(t) : \A j \in 1..Len(t) :
                          t[j].machine_id = t[i].machine_id => j = i}

\* C21: a machine partition of a single row raises no error in any stage
\* and gets the default values: once engineer_features has run every
\* <sensor>_roll_std and every <sensor>_diff of the row is 0, and once the
\* scoring has run every <sensor>_zscore is 0 and anomaly_zscore is false.
C21_SingleRowDefaults ==
    AfterLoadData /\ pc # "load_failed" =>
        /\ raised = NoError
        /\ \A i \in SingleRows(df) :
              /\ pc \in {"features_ok", "saved", "scored", "exported", "plotted"}
                    => \A c \in NumericCols :
                          /\ df[i][c \o "_roll_std"] = Zero
                          /\ df[i][c \o "_diff"] = Zero
              /\ pc \in {"scored", "exported", "plotted"}
                    => /\ \A c \in SensorCols : df[i][ZCol(c)] = Zero
                       /\ df[i].anomaly_zscore = FALSE

\* main has scored a table in which a machine has one row and another
\* machine has one row too
C21_Witness ==
    /\ pc = "scored"
    /\ raised = NoError
    /\ Cardinality(SingleRows(df)) = 2
    /\ \A i \in SingleRows(df) :
          /\ df[i].temperature_c_roll_std = Zero
          /\ df[i].temperature_c_zscore = Zero
          /\ ~df[i].anomaly_zscore

(* ------------------------------------------------------------------ *)
(* Frame properties of the stages (checked under SpecFrames)            *)
(* ------------------------------------------------------------------ *)
\* the columns each feature or scoring stage adds
OwnColumns ==
    [engineer_features |-> DOMAIN FeatureOf,
     compute_z_scores |-> DOMAIN SensorOfZCol,
     flag_zscore_anomalies |-> {"anomaly_zscore"},
     flag_iqr_anomalies |-> {"anomaly_iqr"},
     combined_anomaly_score |-> {"anomaly_combined"}]

Restrict(r, D) == [c \in D |-> r[c]]

\* the caller's table is as it was passed
ArgumentUnchanged == input = runs[1].input

\* row i of the returned table is row j of the table passed with the
\* columns of the stage added and nothing else changed
RowKept(stage, i, j) ==
    /\ DOMAIN df[i] = DOMAIN input[j] \cup OwnColumns[stage]
    /\ Restrict(df[i], DOMAIN input[j]) = input[j]

\* the returned table has the rows of the table passed in the same order
SameOrder(stage) ==
    /\ Len(df) = Len(input)
    /\ \A i \in 1..Len(df) : RowKept(stage, i, i)

\* the position at which row i of the returned table was passed (the index
\* labels of a table are unique)
PassedAt(i) == CHOOSE j \in 1..Len(input) : input[j].index = df[i].index

\* the returned table has the rows of the table passed ordered by
\* (machine_id, timestamp), rows of equal keys in the order passed
SortedOrder(stage) ==
    /\ Len(df) = Len(input)
    /\ \A i \in 1..Len(df) : RowKept(stage, i, PassedAt(i))
    /\ \A i, j \in 1..Len(df) :
          i < j => /\ RowLe(df[i], df[j])
                   /\ Key(df[i]) = Key(df[j]) => PassedAt(i) < PassedAt(j)

\* C22 as stated: no stage changes the table it is given, and each of the
\* feature and scoring stages returns the same rows in the same order with
\* all pre-existing columns unchanged, only adding its own columns.
C22_NoStageMutatesInput ==
    runs # <<>> =>
        /\ ArgumentUnchanged
        /\ runs[1].stage # "clean_data" => SameOrder(runs[1].stage)

\* C22 as amended: no stage changes the table it is given; each scoring
\* stage returns the same rows in the same order, only adding its own
\* columns; engineer_features returns the same rows with its columns added,
\* ordered by (machine_id, timestamp), which is the order passed when the
\* table passed is ordered so.
C22_NoStageMutatesInputSorted ==
    runs # <<>> =>
        /\ ArgumentUnchanged
        /\ runs[1].stage \notin {"clean_data", "engineer_features"}
              => SameOrder(runs[1].stage)
        /\ runs[1].stage = "engineer_features"
              => /\ SortedOrder(runs[1].stage)
                 /\ SortValues(input) = input => SameOrder(runs[1].stage)

\* engineer_features was passed a table that starts with the second
\* machine and returned it reordered, the table passed still as it was
C22_Witness ==
    /\ runs # <<>>
    /\ runs[1].stage = "engineer_features"
    /\ Len(input) = 3
    /\ input[1].machine_id = MACHINES[2]
    /\ input[3].machine_id = MACHINES[1]
    /\ input = runs[1].input
    /\ PassedAt(1) = 3
    /\ DOMAIN input[1] # DOMAIN df[1]

(* ------------------------------------------------------------------ *)
(* Small partitions and the default threshold (checked under SpecSmall) *)
(* ------------------------------------------------------------------ *)
\* C29: with the default threshold 3.0 flag_zscore_anomalies sets
\* anomaly_zscore on no row of a machine partition of at most 10 rows,
\* whatever its values: the z-score of a row of an n-row partition is at
\* most (n-1)/sqrt(n) in absolute value, that is z*z*n <= (n-1)*(n-1).
C29_SmallPartitionNeverFlagged ==
    AfterZScores =>
        \A i \in 1..Len(df) : \A n \in {Cardinality(RowsOf(df, df[i].machine_id))} :
            /\ \A c \in SensorCols : \A z \in {FAbs(df[i][ZCol(c)])} :
                  z[1] * n <= (n - 1) * (n - 1) * z[2]
            /\ AfterZFlag /\ threshold = Z_THRESHOLD /\ n <= 10
                  => ~df[i].anomaly_zscore

\* a partition of 10 rows with a single far reading, whose z-score is at
\* the bound 9/sqrt(10) and is not flagged at the default threshold
C29_Witness ==
    /\ pc = "zflagged"
    /\ threshold = Z_THRESHOLD
    /\ \E i \in 1..Len(df) :
          /\ Cardinality(RowsOf(df, df[i].machine_id)) = 10
          /\ df[i].temperature_c_zscore = Rat(81, 10)
          /\ ~df[i].anomaly_zscore

(* ------------------------------------------------------------------ *)
(* Order of the IQR bounds (checked under SpecBounds)                   *)
(* ------------------------------------------------------------------ *)
\* every value of column c lies between the pooled quartiles, inclusive
WithinQuartiles(t, i) ==
    \A c \in SensorCols :
        /\ FLe(Quartile(t, c, 1), t[i][c])
        /\ FLe(t[i][c], Quartile(t, c, 3))

ConstantColumns(t) ==
    \A c \in SensorCols : \A i, j \in 1..Len(t) : t[i][c] = t[j][c]

\* C30: for every table and every configured sensor (with a value in the
\* table) the bounds of compute_iqr_bounds with a multiplier >= 0 satisfy
\* lower <= Q1 <= Q3 <= upper; a row whose every sensor value lies between
\* the pooled Q1 and Q3 inclusive is never flagged anomaly_iqr; and in a
\* table whose sensor columns are all constant anomaly_iqr and
\* anomaly_combined are false on every row.
C30_BoundsEncloseQuartiles ==
    /\ AfterBounds =>
          \A c \in SensorCols :
              IF Pooled(df, c) = {}
              THEN IsNaN(bounds[c].lower) /\ IsNaN(bounds[c].upper)
              ELSE /\ FLe(bounds[c].lower, Quartile(df, c, 1))
                   /\ FLe(Quartile(df, c, 1), Quartile(df, c, 3))
                   /\ FLe(Quartile(df, c, 3), bounds[c].upper)
    /\ AfterIqrFlag =>
          \A i \in 1..Len(df) :
              /\ WithinQuartiles(df, i) => ~df[i].anomaly_iqr
              /\ ConstantColumns(df) => ~df[i].anomaly_iqr
    /\ pc = "scored" =>
          \A i \in 1..Len(df) : ConstantColumns(df) => ~df[i].anomaly_combined

\* multiplier 0 on a table of three different rows: the bounds are the
\* quartiles themselves, the middle row lies on or between them in every
\* column and is not flagged, another row is
C30_Witness ==
    /\ pc = "iqrflagged"
    /\ Len(df) = 3
    /\ \A c \in SensorCols :
          /\ bounds[c].lower = Quartile(df, c, 1)
          /\ bounds[c].upper = Quartile(df, c, 3)
          /\ FLt(bounds[c].lower, bounds[c].upper)
    /\ \E i, j \in 1..Len(df) :
          /\ WithinQuartiles(df, i)
          /\ ~df[i].anomaly_iqr
          /\ df[j].anomaly_iqr

(* ------------------------------------------------------------------ *)
(* Properties of the network monitor (checked under SpecMonitor)        *)
(* ------------------------------------------------------------------ *)
StatusRead == pc \in {"read", "returned"}

\* C25: CheckResult.status is exactly one of OFFLINE, DEGRADED, ONLINE:
\* OFFLINE if and only if ping_ok is false, whatever the port lists hold;
\* DEGRADED if and only if ping_ok is true and closed_ports is not empty;
\* ONLINE if and only if ping_ok is true and closed_ports is empty.
C25_StatusOfCheckResult ==
    StatusRead =>
        /\ result.status \in {"OFFLINE", "DEGRADED", "ONLINE"}
        /\ result.status = "OFFLINE" <=> ~result.ping_ok
        /\ result.status = "DEGRADED"
              <=> result.ping_ok /\ Len(result.closed_ports) > 0
        /\ result.status = "ONLINE"
              <=> result.ping_ok /\ Len(result.closed_ports) = 0

\* a CheckResult with ping_ok false and a closed port reads OFFLINE
C25_Witness ==
    /\ pc = "read"
    /\ ~result.ping_ok
    /\ Len(result.closed_ports) > 0
    /\ result.status = "OFFLINE"

\* the ports argument as the caller meant it
AskedPorts == IF request.given THEN request.ports ELSE <<22, 80, 443>>

\* the ports of the probes that came out as ok, in probe order
ProbedWith(ok) ==
    LET sel == SelectSeq(probes, LAMBDA x : x.ok = ok)
    IN  [k \in 1..Len(sel) |-> sel[k].port]

InSeq(x, s) == \E k \in 1..Len(s) : s[k] = x

\* when the ping failed no port is probed and both lists are empty
NoProbeWhenOffline ==
    ~result.ping_ok =>
        /\ probes = <<>>
        /\ result.open_ports = <<>>
        /\ result.closed_ports = <<>>

\* every entry of the requested list is probed once, in request order, and
\* goes to open_ports if its probe succeeded and to closed_ports if not,
\* each list in request order
EveryEntryProbed ==
    result.ping_ok =>
        /\ [k \in 1..Len(probes) |-> probes[k].port] = AskedPorts
        /\ result.open_ports = ProbedWith(TRUE)
        /\ result.closed_ports = ProbedWith(FALSE)

\* C26 as stated: when the ping failed no port is probed and open_ports
\* and closed_ports are empty; when it succeeded every requested port is
\* probed exactly once in request order and appears in exactly one of
\* open_ports (probe succeeded) or closed_ports (probe failed), each list
\* keeping request order; with ports omitted the list is [22, 80, 443].
C26_EveryPortProbedOnce ==
    pc = "returned" =>
        /\ NoProbeWhenOffline
        /\ EveryEntryProbed
        /\ result.ping_ok =>
              \A k \in 1..Len(AskedPorts) : \A p \in {AskedPorts[k]} :
                  /\ Cardinality({j \in 1..Len(probes) : probes[j].port = p}) = 1
                  /\ InSeq(p, result.open_ports) # InSeq(p, result.closed_ports)

\* C26 as amended: the same, for the entries of the requested list: a
\* port requested more than once is probed once per entry, and every
\* entry goes to exactly one of the two lists; a port requested once is
\* probed exactly once and appears in exactly one list.
C26_EveryEntryProbedOnce ==
    pc = "returned" =>
        /\ NoProbeWhenOffline
        /\ EveryEntryProbed
        /\ result.ping_ok =>
              /\ Len(result.open_ports) + Len(result.closed_ports)
                    = Len(AskedPorts)
              /\ \A k \in 1..Len(AskedPorts) : \A p \in {AskedPorts[k]} :
                    (\A j \in 1..Len(AskedPorts) : AskedPorts[j] = p => j = k)
                        => /\ Cardinality({j \in 1..Len(probes) :
                                              probes[j].port = p}) = 1
                           /\ InSeq(p, result.open_ports)
                                 # InSeq(p, result.closed_ports)

\* ports omitted, ping succeeded: 22 and 443 open, 80 closed
C26_Witness ==
    /\ pc = "returned"
    /\ ~request.given
    /\ result.ping_ok
    /\ result.open_ports = <<22, 443>>
    /\ result.closed_ports = <<80>>
    /\ Len(probes) = 3

RowsOfMachine(m) == {i \in 1..Len(df) : df[i].machine_id = m}

\* rows i < j of one machine with no row of that machine between them
NextOfMachine(i, j) ==
    /\ i < j
    /\ df[i].machine_id = df[j].machine_id
    /\ \A k \in (i + 1)..(j - 1) : df[k].machine_id # df[i].machine_id

BlockAllOrNothing ==
    conn.state = "closed" =>
        IF raised # NoError THEN db = conn.base ELSE db = conn.work

\* an insert_sales_batch call that raised left the sales table as it was
FailedBatchWritesNothing ==
    (pc = "idle" /\ runs # <<>> /\ runs[1].call = "insert_sales_batch"
        /\ raised # NoError)
        => db.sales = runs[1].before.sales

\* C27: a get_connection block is all-or-nothing: when the block completes
\* all its writes are committed, when a statement in it raises all writes
\* of the block are rolled back and the exception reaches the caller, and
\* the connection is closed in both cases; insert_sales_batch with an
\* invalid record leaves the sales table as it was before the call.
C27_BlockAllOrNothing ==
    /\ BlockAllOrNothing
    /\ pc = "idle" => conn.state # "open"
    /\ FailedBatchWritesNothing

\* the call in progress or just over is a call of name
LastCall(name) == runs # <<>> /\ runs[1].call = name

\* C28: after any sequence of init_db, seed_master_data, generate_sales and
\* setup_demo_db calls on one database, products holds 0 or exactly 10
\* rows and customers is empty exactly when products is; a
\* seed_master_data call on a database that has products writes nothing
\* and returns the ids of the products and customers there are; a
\* setup_demo_db call on a database that has sales adds no sale.
C28_MasterDataInsertedOnce ==
    /\ Len(db.products) \in {0, 10}
    /\ Len(db.customers) = 0 <=> Len(db.products) = 0
    /\ (LastCall("seed_master_data") /\ Len(runs[1].before.products) > 0)
          => /\ db = runs[1].before
             /\ conn.state = "open" => conn.work = db
             /\ (pc = "idle" /\ raised = NoError)
                   => /\ ret.product_ids = Ids(db.products)
                      /\ ret.customer_ids = Ids(db.customers)
    /\ (LastCall("setup_demo_db") /\ Len(runs[1].before.sales) > 0)
          => /\ db.sales = runs[1].before.sales
             /\ conn.state = "open" => conn.work.sales = db.sales

\* seed_master_data has returned the ids of a database that was seeded
\* before and holds a sale
C28_Witness ==
    /\ pc = "idle"
    /\ raised = NoError
    /\ LastCall("seed_master_data")
    /\ Len(runs[1].before.products) = 10
    /\ Len(db.sales) > 0
    /\ Len(ret.product_ids) = 10
    /\ Len(ret.customer_ids) = 10

====
